---- MODULE Spec2Model ----
(***************************************************************************)
(* Model of sync_pr_to_ado.py: the directive parser, the work-item client  *)
(* calls and the four reconcilers driven by main().                        *)
(*                                                                         *)
(* A Python str is a sequence of one-character strings, so the regular     *)
(* expressions of the extractors are evaluated character by character.     *)
(***************************************************************************)
EXTENDS Integers, Sequences, FiniteSets, TLC

----------------------------------------------------------------------------
(* Characters and elementary string functions                              *)

UpperChars == <<"A","B","C","D","E","F","G","H","I","J","K","L","M",
                "N","O","P","Q","R","S","T","U","V","W","X","Y","Z">>

LowerChars == <<"a","b","c","d","e","f","g","h","i","j","k","l","m",
                "n","o","p","q","r","s","t","u","v","w","x","y","z">>

DigitChars == <<"0","1","2","3","4","5","6","7","8","9">>

\* str.lower() on one character; also the folding done by re.IGNORECASE
LowerChar(c) ==
    IF \E k \in DOMAIN UpperChars : UpperChars[k] = c
    THEN LowerChars[CHOOSE k \in DOMAIN UpperChars : UpperChars[k] = c]
    ELSE c

\* str.lower()
Lower(s) == [k \in DOMAIN s |-> LowerChar(s[k])]

\* the class \s of the patterns
IsSpace(c) == c \in {" ", "\n", "\t"}

\* the class \d of the patterns
IsDigit(c) == \E k \in DOMAIN DigitChars : DigitChars[k] = c

DigitVal(c) == (CHOOSE k \in DOMAIN DigitChars : DigitChars[k] = c) - 1

\* int() of a string of digits
RECURSIVE ParseInt(_)
ParseInt(ds) ==
    IF ds = <<>> THEN 0
    ELSE 10 * ParseInt(SubSeq(ds, 1, Len(ds) - 1)) + DigitVal(ds[Len(ds)])

\* a literal of a pattern matches s at position i, ignoring case
MatchLit(s, i, lit) ==
    /\ i >= 1
    /\ i + Len(lit) - 1 <= Len(s)
    /\ \A k \in 1..Len(lit) : LowerChar(s[i + k - 1]) = LowerChar(lit[k])

\* greedy \s* from position i: the first position that is not whitespace
RECURSIVE SkipWs(_, _)
SkipWs(s, i) ==
    IF i <= Len(s) /\ IsSpace(s[i]) THEN SkipWs(s, i + 1) ELSE i

\* greedy \d+ from position i: the first position that is not a digit
RECURSIVE SkipDigits(_, _)
SkipDigits(s, i) ==
    IF i <= Len(s) /\ IsDigit(s[i]) THEN SkipDigits(s, i + 1) ELSE i

\* the end of the line holding position i: the next "\n" or Len(s) + 1
RECURSIVE LineEnd(_, _)
LineEnd(s, i) ==
    IF i <= Len(s) /\ s[i] # "\n" THEN LineEnd(s, i + 1) ELSE i

\* str.strip()
RECURSIVE LStrip(_)
LStrip(s) == IF s # <<>> /\ IsSpace(s[1]) THEN LStrip(Tail(s)) ELSE s

RECURSIVE RStrip(_)
RStrip(s) ==
    IF s # <<>> /\ IsSpace(s[Len(s)]) THEN RStrip(SubSeq(s, 1, Len(s) - 1)) ELSE s

Strip(s) == RStrip(LStrip(s))

\* position of the first occurrence of character c in s, 0 when absent
FirstIndex(s, c) ==
    IF \E k \in DOMAIN s : s[k] = c
    THEN CHOOSE k \in DOMAIN s : s[k] = c /\ \A j \in 1..(k - 1) : s[j] # c
    ELSE 0

\* str.split(c) for a one-character separator
RECURSIVE Split(_, _)
Split(s, c) ==
    LET k == FirstIndex(s, c)
    IN  IF k = 0 THEN <<s>>
        ELSE <<SubSeq(s, 1, k - 1)>> \o Split(SubSeq(s, k + 1, Len(s)), c)

\* str.join
RECURSIVE Join(_, _)
Join(sep, parts) ==
    IF parts = <<>> THEN <<>>
    ELSE IF Len(parts) = 1 THEN parts[1]
    ELSE parts[1] \o sep \o Join(sep, Tail(parts))

\* `sub in s` for strings
Contains(s, sub) ==
    \E i \in 1..(Len(s) - Len(sub) + 1) : SubSeq(s, i, i + Len(sub) - 1) = sub

\* the elements of a sequence that are not the empty string, in order
RECURSIVE NonEmpty(_)
NonEmpty(ss) ==
    IF ss = <<>> THEN <<>>
    ELSE IF ss[1] = <<>> THEN NonEmpty(Tail(ss))
    ELSE <<ss[1]>> \o NonEmpty(Tail(ss))

\* the elements as they are, not stripped
StripAll_Verbatim(ss) == ss

\* the elements of a sequence of strings, each stripped
StripAll(ss) == [k \in DOMAIN ss |-> Strip(ss[k])]

----------------------------------------------------------------------------
(* The directive parser                                                    *)

KwADO      == <<"A","D","O">>
KwCard     == <<"C","a","r","d">>
KwTags     == <<"T","a","g","s">>
KwChildren == <<"C","h","i","l","d","r","e","n">>
KwComment  == <<"C","o","m","m","e","n","t">>
KwLinks    == <<"L","i","n","k","s">>

\* the common head  ADO\s*<kw>\s*:  of the five patterns, matched at position
\* i: the position after the colon, or 0 when it does not match there
DirectiveHead(s, i, kw) ==
    IF ~MatchLit(s, i, KwADO) THEN 0
    ELSE LET a == SkipWs(s, i + Len(KwADO))
         IN  IF ~MatchLit(s, a, kw) THEN 0
             ELSE LET b == SkipWs(s, a + Len(kw))
                  IN  IF b <= Len(s) /\ s[b] = ":" THEN b + 1 ELSE 0

\* re.search: the leftmost position where the pattern matches, 0 if none;
\* hits[i] tells whether the pattern matches at position i
FirstMatch(hits) ==
    IF \E i \in DOMAIN hits : hits[i]
    THEN CHOOSE i \in DOMAIN hits : hits[i] /\ \A j \in 1..(i - 1) : ~hits[j]
    ELSE 0

\* \s* followed by a pattern that needs one character other than "\n"
\* (`.+` or `.+?`): the position where that pattern starts, 0 if it cannot.
\* \s* is greedy; when it runs to the end of the string it gives characters
\* back until the last one it gave back is not a newline.
RestStart(s, from) ==
    LET m == SkipWs(s, from)
    IN  IF m <= Len(s) THEN m
        ELSE IF \E p \in from..Len(s) : s[p] # "\n"
             THEN CHOOSE p \in from..Len(s) :
                     s[p] # "\n" /\ \A q \in (p + 1)..Len(s) : s[q] = "\n"
             ELSE 0

\* ADO\s*Card\s*:\s*(\d+)
CardMatchAt(s, i) ==
    LET c == DirectiveHead(s, i, KwCard)
    IN  /\ c # 0
        /\ SkipWs(s, c) <= Len(s)
        /\ IsDigit(s[SkipWs(s, c)])

\* The result is <<>> for None and <<n>> for the integer n.
extract_ado_card_number(pr_description) ==
    LET i == FirstMatch([k \in 1..Len(pr_description) |-> CardMatchAt(pr_description, k)])
    IN  IF i = 0 THEN <<>>
        ELSE LET d == SkipWs(pr_description, DirectiveHead(pr_description, i, KwCard))
             IN  <<ParseInt(SubSeq(pr_description, d, SkipDigits(pr_description, d) - 1))>>

\* ADO\s*Tags\s*:\s*(.+?)(?:\n|$)
TagsMatchAt(s, i) ==
    LET c == DirectiveHead(s, i, KwTags)
    IN  c # 0 /\ RestStart(s, c) # 0

extract_tags(pr_description) ==
    LET i == FirstMatch([k \in 1..Len(pr_description) |-> TagsMatchAt(pr_description, k)])
    IN  IF i = 0 THEN <<>>
        ELSE LET p == RestStart(pr_description, DirectiveHead(pr_description, i, KwTags))
                 tags_str == SubSeq(pr_description, p, LineEnd(pr_description, p) - 1)
             IN  NonEmpty(StripAll(Split(tags_str, ",")))

IsBullet(c) == c \in {"-", "*"}

\* one iteration of (?:\s*[-*]\s*.+\n?) from position i: the position after
\* it, 0 when it does not match
BulletIter(s, i) ==
    LET a == SkipWs(s, i)
    IN  IF ~(a <= Len(s) /\ IsBullet(s[a])) THEN 0
        ELSE LET p == RestStart(s, a + 1)
             IN  IF p = 0 THEN 0
                 ELSE LET e == LineEnd(s, p)
                      IN  IF e <= Len(s) THEN e + 1 ELSE e

\* ((?:\s*[-*]\s*.+\n?)+) from position i: the position after the last
\* iteration that matches (i itself when none does)
RECURSIVE BlockEnd(_, _)
BlockEnd(s, i) ==
    LET e == BulletIter(s, i)
    IN  IF e = 0 THEN i ELSE BlockEnd(s, e)

\* :\s*\n  the position after the newline that ends \s*\n, 0 if the
\* whitespace after the colon at c - 1 holds no newline
BlockStart(s, c) ==
    LET m == SkipWs(s, c)
    IN  IF \E n \in c..(m - 1) : s[n] = "\n"
        THEN 1 + CHOOSE n \in c..(m - 1) :
                    s[n] = "\n" /\ \A q \in (n + 1)..(m - 1) : s[q] # "\n"
        ELSE 0

\* ADO\s*<kw>\s*:\s*\n((?:\s*[-*]\s*.+\n?)+)
BlockMatchAt(s, i, kw) ==
    LET c == DirectiveHead(s, i, kw)
    IN  /\ c # 0
        /\ BlockStart(s, c) # 0
        /\ BulletIter(s, BlockStart(s, c)) # 0

\* group(1) of the block pattern matched at position i
BlockGroup(s, i, kw) ==
    LET g == BlockStart(s, DirectiveHead(s, i, kw))
    IN  SubSeq(s, g, BlockEnd(s, g) - 1)

\* one match of [-*]\s*(.+) at position a of the block
ItemMatchAt(blk, a) ==
    a <= Len(blk) /\ IsBullet(blk[a]) /\ RestStart(blk, a + 1) # 0

\* re.findall(r"[-*]\s*(.+)", blk), scanning from position j
RECURSIVE FindItems(_, _)
FindItems(blk, j) ==
    IF ~ \E a \in j..Len(blk) : ItemMatchAt(blk, a) THEN <<>>
    ELSE LET a == CHOOSE a \in j..Len(blk) :
                      ItemMatchAt(blk, a) /\ \A b \in j..(a - 1) : ~ItemMatchAt(blk, b)
             p == RestStart(blk, a + 1)
             e == LineEnd(blk, p)
         IN  <<SubSeq(blk, p, e - 1)>> \o FindItems(blk, e)

ChildrenMatchAt(s, i) == BlockMatchAt(s, i, KwChildren)

extract_children(pr_description) ==
    LET i == FirstMatch([k \in 1..Len(pr_description) |-> ChildrenMatchAt(pr_description, k)])
    IN  IF i = 0 THEN <<>>
        ELSE NonEmpty(StripAll(FindItems(BlockGroup(pr_description, i, KwChildren), 1)))

\* where (.+?) may stop:  \n(?=ADO\s)  or  $  (the end of the string, or
\* just before a newline that is its last character)
CommentStop(s, e) ==
    \/ e = Len(s) + 1
    \/ e = Len(s) /\ s[e] = "\n"
    \/ /\ e < Len(s)
       /\ s[e] = "\n"
       /\ MatchLit(s, e + 1, KwADO)
       /\ e + 1 + Len(KwADO) <= Len(s)
       /\ IsSpace(s[e + 1 + Len(KwADO)])

\* \s*(.+?) with re.DOTALL: `.` takes any character, so \s* gives back at
\* most the last character of the string
CommentStart(s, c) ==
    LET m == SkipWs(s, c)
    IN  IF m <= Len(s) THEN m
        ELSE IF m - 1 >= c THEN m - 1
        ELSE 0

\* ADO\s*Comment\s*:\s*(.+?)(?:\n(?=ADO\s)|$)
CommentMatchAt(s, i) ==
    LET c == DirectiveHead(s, i, KwComment)
    IN  c # 0 /\ CommentStart(s, c) # 0

\* The result is <<>> for None and <<text>> for a string.
extract_comment(pr_description) ==
    LET i == FirstMatch([k \in 1..Len(pr_description) |-> CommentMatchAt(pr_description, k)])
    IN  IF i = 0 THEN <<>>
        ELSE LET s == pr_description
                 p == CommentStart(s, DirectiveHead(s, i, KwComment))
                 e == CHOOSE e \in (p + 1)..(Len(s) + 1) :
                         CommentStop(s, e) /\ \A f \in (p + 1)..(e - 1) : ~CommentStop(s, f)
             IN  <<Strip(SubSeq(s, p, e - 1))>>

LinksMatchAt(s, i) == BlockMatchAt(s, i, KwLinks)

\* a loop body that gives a bullet without a name an empty name
LinkOfLine_NoDefaultName(raw) ==
    LET line == Strip(raw)
        k == FirstIndex(line, "|")
        url == IF k = 0 THEN line ELSE Strip(SubSeq(line, 1, k - 1))
        name == IF k = 0 THEN <<>> ELSE Strip(SubSeq(line, k + 1, Len(line)))
    IN  IF line = <<>> \/ url = <<>> THEN <<>>
        ELSE <<[url |-> url, name |-> name]>>

\* the loop body of extract_links for one bullet line: <<>> or <<link>>
LinkOfLine(raw) ==
    LET line == Strip(raw)
        k == FirstIndex(line, "|")
        url == IF k = 0 THEN line ELSE Strip(SubSeq(line, 1, k - 1))
        name == IF k = 0 THEN line ELSE Strip(SubSeq(line, k + 1, Len(line)))
    IN  IF line = <<>> \/ url = <<>> THEN <<>>
        ELSE <<[url |-> url, name |-> name]>>

RECURSIVE LinksOfLines(_)
LinksOfLines(ls) ==
    IF ls = <<>> THEN <<>> ELSE LinkOfLine(ls[1]) \o LinksOfLines(Tail(ls))

extract_links(pr_description) ==
    LET i == FirstMatch([k \in 1..Len(pr_description) |-> LinksMatchAt(pr_description, k)])
    IN  IF i = 0 THEN <<>>
        ELSE LinksOfLines(FindItems(BlockGroup(pr_description, i, KwLinks), 1))

----------------------------------------------------------------------------
(* PR descriptions the runs are given                                      *)

\* "Fix\n"
LineProse ==
    <<"F","i","x","\n">>

\* "ADO Card: 42\n"
LineCard42 ==
    <<"A","D","O"," ","C","a","r","d",":"," ","4","2","\n">>

\* "ADO Card: 0\n"
LineCard0 ==
    <<"A","D","O"," ","C","a","r","d",":"," ","0","\n">>

\* "ado card:7\n"
LineCard7 ==
    <<"a","d","o"," ","c","a","r","d",":","7","\n">>

\* "ADO Tags: b, u\n"
LineTags ==
    <<"A","D","O"," ","T","a","g","s",":"," ","b",","," ","u","\n">>

\* "ADO Tags:\n"
LineTagsEmpty ==
    <<"A","D","O"," ","T","a","g","s",":","\n">>

\* "ADO Tags: "
LineTagsLast ==
    <<"A","D","O"," ","T","a","g","s",":"," ">>

\* "ADO Children:\n- Ab\n- AB\n"
BlockChildrenDup ==
    <<"A","D","O"," ","C","h","i","l","d","r","e","n",":","\n","-"," ","A",
      "b","\n","-"," ","A","B","\n">>

\* "ADO Children:\n- ab\n* c\n"
BlockChildren ==
    <<"A","D","O"," ","C","h","i","l","d","r","e","n",":","\n","-"," ","a",
      "b","\n","*"," ","c","\n">>

\* "ADO Comment: hi\n"
LineCommentHi ==
    <<"A","D","O"," ","C","o","m","m","e","n","t",":"," ","h","i","\n">>

\* "ADO Comment: yo\n"
LineCommentYo ==
    <<"A","D","O"," ","C","o","m","m","e","n","t",":"," ","y","o","\n">>

\* "ADO Links:\n- u | n\n- u | m\n"
BlockLinksDup ==
    <<"A","D","O"," ","L","i","n","k","s",":","\n","-"," ","u"," ","|"," ",
      "n","\n","-"," ","u"," ","|"," ","m","\n">>

\* "ADO Links:\n- u\n- v | n\n"
BlockLinks ==
    <<"A","D","O"," ","L","i","n","k","s",":","\n","-"," ","u","\n","-"," ",
      "v"," ","|"," ","n","\n">>

\* the first-run scenario of the specification:
\* "Ship it.\n\nADO Card: 42\nADO Tags: bug, urgent\nADO Children:\n"
\* "- write tests\n- update docs\n"
EndToEndText ==
    <<"S","h","i","p"," ","i","t",".","\n","\n","A","D","O"," ","C","a","r",
      "d",":"," ","4","2","\n","A","D","O"," ","T","a","g","s",":"," ","b",
      "u","g",","," ","u","r","g","e","n","t","\n","A","D","O"," ","C","h",
      "i","l","d","r","e","n",":","\n","-"," ","w","r","i","t","e"," ","t",
      "e","s","t","s","\n","-"," ","u","p","d","a","t","e"," ","d","o","c",
      "s","\n">>

Texts ==
    { <<>>,
      LineProse,
      LineTags \o BlockChildren \o LineCommentHi,
      LineProse \o LineCard0,
      LineCard7 \o LineCard42,
      LineProse \o LineCard42 \o LineTags \o BlockChildrenDup,
      LineCard42 \o LineTagsEmpty \o LineCommentHi \o BlockLinksDup,
      LineCard42 \o LineCommentYo \o BlockLinks \o LineTagsLast,
      LineCard42 \o LineTags \o BlockChildren \o LineCommentHi \o BlockLinks,
      EndToEndText }

\* runs started in one behaviour
MaxRuns == 2

\* remote calls that fail in one behaviour
MaxFailures == 1

Procs == {1, 2}

\* the status codes a call is answered with
Statuses == {200, 401, 500}

\* the id of the work item the remote store holds; any other id is unknown
RemoteCard == ParseInt(<<"4","2">>)

\* what .ado/metadata.json and the environment can hold at a run
\* file: metadata.json exists; organization, project: "" when the key is
\* absent or empty (`not organization` makes no difference between them);
\* pat_env_var: <<>> when the key is absent; env: the environment, a
\* function from the names that are set to their values
Configs ==
    { [file |-> TRUE,  organization |-> "org", project |-> "proj",
       pat_env_var |-> <<>>, env |-> ("ADO_PAT" :> "pat")],
      [file |-> FALSE, organization |-> "",    project |-> "",
       pat_env_var |-> <<>>, env |-> ("ADO_PAT" :> "pat")],
      [file |-> TRUE,  organization |-> "",    project |-> "proj",
       pat_env_var |-> <<>>, env |-> ("ADO_PAT" :> "pat")],
      [file |-> TRUE,  organization |-> "org", project |-> "",
       pat_env_var |-> <<>>, env |-> ("ADO_PAT" :> "pat")],
      [file |-> TRUE,  organization |-> "org", project |-> "proj",
       pat_env_var |-> <<>>, env |-> ("ADO_PAT" :> "")],
      [file |-> TRUE,  organization |-> "org", project |-> "proj",
       pat_env_var |-> <<>>, env |-> ("HOME" :> "pat")],
      [file |-> TRUE,  organization |-> "org", project |-> "proj",
       pat_env_var |-> <<"MY_PAT">>, env |-> ("ADO_PAT" :> "pat")] }

----------------------------------------------------------------------------
(* State                                                                   *)

VARIABLES
    wiDescription,  \* System.Description of the card: <<>> or <<string>>
    wiTags,         \* System.Tags of the card: <<>> or <<string>>
    wiPaths,        \* System.AreaPath and System.IterationPath of the card
    wiChildren,     \* the card's children, in creation order: [id, title]
    wiComments,     \* the card's comments, in creation order: [id, text]
    wiRelations,    \* the card's Hyperlink relations, in creation order
    run,            \* per process: the position and the locals of main()
    runs,           \* runs started so far
    failures,       \* remote calls that failed so far
    prev,           \* the run before the current one and the card it left,
                    \* kept when every call of that run was answered 200
    lastComment,    \* the text of the latest sync_comment call: <<>> or <<text>>
    gh              \* gh_repo_automation.py: the position and the locals of
                    \* main(), of the action and of sync_files_to_repo

remote == <<wiDescription, wiTags, wiPaths, wiChildren, wiComments, wiRelations>>

vars == <<wiDescription, wiTags, wiPaths, wiChildren, wiComments, wiRelations,
          run, runs, failures, prev, lastComment, gh>>

\* # Marker used to identify comments created by this sync tool
COMMENT_MARKER ==
    <<"<","!","-","-"," ","a","d","o","-","s","y","n","c","-","c","o","m",
      "m","e","n","t"," ","-","-",">">>

\* the separator of the tags string, "; "
TagSeparator == <<";"," ">>

EmptyMap == [k \in {} |-> 0]

\* a process that is not running main()
IdleRun ==
    [pc |-> "idle", text |-> <<>>, card |-> <<>>, tags |-> <<>>,
     children |-> <<>>, comment |-> <<>>, links |-> <<>>,
     extracted |-> FALSE, loaded |-> FALSE, client |-> FALSE,
     child_ids |-> <<>>, fetched |-> <<>>, existing |-> EmptyMap,
     parent |-> <<>>, ci |-> 1, comments |-> <<>>, relations |-> <<>>,
     urls |-> {}, li |-> 1, cfg |-> <<>>,
     log |-> <<>>, stderr |-> <<>>, exit |-> <<>>]

\* gh_repo_automation.py before main() is entered
IdleGh ==
    [pc |-> "idle", action |-> "", n |-> 0, body |-> FALSE, i |-> 1,
     steps |-> <<>>, attempts |-> <<>>, success |-> 0, failed |-> 0,
     pr_urls |-> <<>>, exit |-> <<>>]

\* every call of the run was answered 200 and the run ended with code 0
RunOk(r) ==
    /\ r.exit = <<0>>
    /\ \A k \in DOMAIN r.log : r.log[k].status = 200

----------------------------------------------------------------------------
(* The remote store                                                        *)

\* the statuses a call on work item id can be answered with now
Responses(id) ==
    IF id # RemoteCard THEN {404}
    ELSE {st \in Statuses : st = 200 \/ failures < MaxFailures}

Failed(st) == IF st = 200 THEN 0 ELSE 1

\* the value a field has after a patch document: <<>> when absent
RECURSIVE FieldAfter(_, _, _)
FieldAfter(doc, path, cur) ==
    IF doc = <<>> THEN cur
    ELSE FieldAfter(Tail(doc), path,
                    IF doc[1].path # path THEN cur
                    ELSE IF doc[1].op = "remove" THEN <<>>
                    ELSE <<doc[1].value>>)

\* the relations a patch document adds, in order
RECURSIVE AddedRelations(_)
AddedRelations(doc) ==
    IF doc = <<>> THEN <<>>
    ELSE IF doc[1].op = "add" /\ doc[1].path = "/relations/-"
         THEN <<doc[1].value>> \o AddedRelations(Tail(doc))
         ELSE AddedRelations(Tail(doc))

\* the relations of one kind among rels, in order
RECURSIVE OfKind(_, _)
OfKind(rels, kind) ==
    IF rels = <<>> THEN <<>>
    ELSE IF rels[1].rel = kind THEN <<rels[1]>> \o OfKind(Tail(rels), kind)
    ELSE OfKind(Tail(rels), kind)

\* the id the store gives the next work item and the next comment
NewWorkItemId == RemoteCard + Len(wiChildren) + 1
NewCommentId == Len(wiComments) + 1

----------------------------------------------------------------------------
(* What the client prints to stderr for a response                         *)

GetWorkItemErr(st) ==
    IF st = 401 THEN <<"Authentication failed (401). Check your PAT token.", "URL">>
    ELSE <<>>

UpdateWorkItemErr(st) ==
    IF st = 200 THEN <<>>
    ELSE <<"Error updating work item: status">>
         \o (IF st = 401 THEN <<"Authentication failed. Required scopes">> ELSE <<>>)
         \o <<"Details: body">>

CreateWorkItemErr(st) ==
    IF st = 200 THEN <<>>
    ELSE <<"Error creating work item: status">>
         \o (IF st = 401 THEN <<"Authentication failed. Required scopes">> ELSE <<>>)
         \o <<"Details: body">>

GetCommentsErr(st) ==
    IF st = 401 THEN <<"Authentication failed fetching comments. Check your PAT token.">>
    ELSE <<>>

AddCommentErr(st) ==
    IF st = 200 THEN <<>>
    ELSE <<"Error adding comment: status">>
         \o (IF st = 401 THEN <<"Authentication failed. Check your PAT token.">> ELSE <<>>)
         \o <<"Details: body">>

UpdateCommentErr(st) ==
    IF st = 200 THEN <<>>
    ELSE <<"Error updating comment: status">>
         \o (IF st = 401 THEN <<"Authentication failed. Check your PAT token.">> ELSE <<>>)
         \o <<"Details: body">>

----------------------------------------------------------------------------
(* The reconcilers' pure parts                                             *)

\* a test that takes only 0 for a missing number
NoCardNumber_ZeroOnly(card) == card # <<>> /\ card[1] = 0

\* `not ado_card_number` in main(): None and 0 are both false
NoCardNumber(card) == card = <<>> \/ card[1] = 0

\* `if comment:` in main() and `if not comment_text` in sync_comment
HasComment(comment) == comment # <<>> /\ comment[1] # <<>>

\* a document that leaves the tags alone when none are given
PatchDocument_NoRemove(description, tags) ==
    <<[op |-> "replace", path |-> "/fields/System.Description", value |-> description]>>
    \o (IF tags # <<>>
        THEN <<[op |-> "replace", path |-> "/fields/System.Tags",
                value |-> Join(TagSeparator, tags)]>>
        ELSE <<>>)

\* a document that patches the description alone
PatchDocument_DescriptionOnly(description, tags) ==
    <<[op |-> "replace", path |-> "/fields/System.Description", value |-> description]>>

\* the patch document of update_work_item_description_and_tags
PatchDocument(description, tags) ==
    <<[op |-> "replace", path |-> "/fields/System.Description", value |-> description]>>
    \o (IF tags # <<>>
        THEN <<[op |-> "replace", path |-> "/fields/System.Tags",
                value |-> Join(TagSeparator, tags)]>>
        ELSE <<[op |-> "remove", path |-> "/fields/System.Tags"]>>)

\* a main() that goes on after a failed update
PatchIsFatal_Never(ok) == FALSE

\* main() ends the run when the description/tags update returns False
PatchIsFatal(ok) == ~ok

\* a dict keyed by the titles as they are written
ChildTitles_Verbatim(items) ==
    [k \in {items[j].title : j \in DOMAIN items} |->
        items[CHOOSE j \in DOMAIN items : items[j].title = k].id]

\* the dict get_existing_child_titles builds from the fetched items
RECURSIVE ChildTitles(_)
ChildTitles(items) ==
    IF items = <<>> THEN EmptyMap
    ELSE LET front == ChildTitles(SubSeq(items, 1, Len(items) - 1))
             last == items[Len(items)]
         IN  [k \in DOMAIN front \cup {Lower(last.title)} |->
                 IF k = Lower(last.title) THEN last.id ELSE front[k]]

\* a membership test on the title as it is written
ChildExists_CaseSensitive(title, existing) == title \in DOMAIN existing

\* `title.lower() in existing`
ChildExists(title, existing) == Lower(title) \in DOMAIN existing

\* a document that carries the two paths even when they are empty
ChildDocument_AlwaysPaths(title, parent_id, area_path, iteration_path) ==
    <<[op |-> "add", path |-> "/fields/System.Title", value |-> title],
      [op |-> "add", path |-> "/relations/-",
       value |-> [rel |-> "System.LinkTypes.Hierarchy-Reverse", url |-> parent_id]],
      [op |-> "add", path |-> "/fields/System.AreaPath", value |-> area_path],
      [op |-> "add", path |-> "/fields/System.IterationPath",
       value |-> iteration_path]>>

\* the patch document of one child task
ChildDocument(title, parent_id, area_path, iteration_path) ==
    <<[op |-> "add", path |-> "/fields/System.Title", value |-> title],
      [op |-> "add", path |-> "/relations/-",
       value |-> [rel |-> "System.LinkTypes.Hierarchy-Reverse", url |-> parent_id]]>>
    \o (IF area_path # <<>>
        THEN <<[op |-> "add", path |-> "/fields/System.AreaPath", value |-> area_path]>>
        ELSE <<>>)
    \o (IF iteration_path # <<>>
        THEN <<[op |-> "add", path |-> "/fields/System.IterationPath",
                value |-> iteration_path]>>
        ELSE <<>>)

\* full_comment in sync_comment
FullComment_NoNewline(comment_text) == COMMENT_MARKER \o comment_text

FullComment(comment_text) == COMMENT_MARKER \o <<"\n">> \o comment_text

\* `COMMENT_MARKER in comment.get("text", "")`
HasMarker(comment) == Contains(comment.text, COMMENT_MARKER)

\* a scan that never finds the marker
FirstMarked_None(cs) == 0

\* a scan that stops at the first comment, marker or not
FirstMarked_First(cs) == IF cs # <<>> THEN 1 ELSE 0

\* the position of the comment the loop of sync_comment stops at, 0 if none
FirstMarked(cs) ==
    IF \E k \in DOMAIN cs : HasMarker(cs[k])
    THEN CHOOSE k \in DOMAIN cs :
            HasMarker(cs[k]) /\ \A j \in 1..(k - 1) : ~HasMarker(cs[j])
    ELSE 0

\* the set get_existing_hyperlinks builds from the relations of the card
ExistingUrls_ByLabel(rels) ==
    {rels[k].attributes.comment :
        k \in {j \in DOMAIN rels : rels[j].rel = "Hyperlink"}}

ExistingUrls(rels) ==
    {rels[k].url : k \in {j \in DOMAIN rels : rels[j].rel = "Hyperlink"}}

\* `url in existing`
UrlExists(url, existing) == url \in existing

\* the patch document of one hyperlink
LinkDocument(url, name) ==
    <<[op |-> "add", path |-> "/relations/-",
       value |-> [rel |-> "Hyperlink", url |-> url,
                  attributes |-> [comment |-> name]]]>>

----------------------------------------------------------------------------
(* main(): one action per step between two remote calls                    *)

Exit(r, code, msgs) ==
    [r EXCEPT !.pc = "exit", !.exit = <<code>>, !.stderr = @ \o msgs]

\* the position after sync_hyperlinks: print("Done!") and exit code 0
Finish(r) == Exit(r, 0, <<>>)

\* the position after sync_comment: `if links:`
AfterComment(r) ==
    IF r.links # <<>> THEN [r EXCEPT !.pc = "link_fetch"] ELSE Finish(r)

\* a main() that ends the run when the child reconciler reported an error
AfterChildren_StopOnError(r) ==
    IF r.stderr # <<>> THEN Exit(r, 1, <<>>)
    ELSE IF HasComment(r.comment) THEN [r EXCEPT !.pc = "comment_list"]
    ELSE AfterComment(r)

\* the position after sync_child_items: `if comment:`
AfterChildren(r) ==
    IF HasComment(r.comment) THEN [r EXCEPT !.pc = "comment_list"]
    ELSE AfterComment(r)

\* the position after the description/tags update: `if children:`
AfterPatch(r) ==
    IF r.children # <<>> THEN [r EXCEPT !.pc = "child_wiql"]
    ELSE AfterChildren(r)

\* the work item type a call names: create_work_item("Task", ...)
WorkItemType(op) == IF op = "create_work_item" THEN "Task" ELSE ""

Logged(r, op, st, body) ==
    [r EXCEPT !.log = Append(@, [op |-> op, id |-> r.card[1], status |-> st,
                                  body |-> body, at |-> r.pc,
                                  type |-> WorkItemType(op)])]

\* a process starts main() on a PR description
Start(p, t) ==
    /\ run[p].pc \in {"idle", "exit"}
    /\ runs < MaxRuns
    /\ run' = [run EXCEPT ![p] = [IdleRun EXCEPT !.pc = "main", !.text = t]]
    /\ runs' = runs + 1
    /\ prev' = IF run[p].pc = "exit" /\ RunOk(run[p])
               THEN [text |-> run[p].text, ok |-> TRUE, card |-> remote]
               ELSE IF run[p].pc = "exit"
               THEN [text |-> <<>>, ok |-> FALSE, card |-> <<>>]
               ELSE prev
    /\ UNCHANGED <<gh, wiDescription, wiTags, wiPaths, wiChildren, wiComments,
                   wiRelations, failures, lastComment>>

\* main(), lines 640-652: the empty description and the card number
ExtractCard(p) ==
    LET r == run[p]
        card == extract_ado_card_number(r.text)
    IN  /\ r.pc = "main"
        /\ run' = [run EXCEPT ![p] =
              IF r.text = <<>>
              THEN Exit(r, 1, <<"Error: PR description is empty">>)
              ELSE IF NoCardNumber(card)
              THEN Exit(r, 1, <<"No ADO Card number found in PR description",
                                "Expected format: 'ADO Card: <number>'">>)
              ELSE [r EXCEPT !.card = card, !.pc = "extract"]]
        /\ UNCHANGED <<gh, wiDescription, wiTags, wiPaths, wiChildren, wiComments,
                       wiRelations, runs, failures, prev, lastComment>>

\* main(), lines 654-667: the other four extractors
ExtractDirectives(p) ==
    LET r == run[p]
    IN  /\ r.pc = "extract"
        /\ run' = [run EXCEPT ![p] =
              [r EXCEPT !.tags = extract_tags(r.text),
                        !.children = extract_children(r.text),
                        !.comment = extract_comment(r.text),
                        !.links = extract_links(r.text),
                        !.extracted = TRUE,
                        !.pc = "config"]]
        /\ UNCHANGED <<gh, wiDescription, wiTags, wiPaths, wiChildren, wiComments,
                       wiRelations, runs, failures, prev, lastComment>>

\* get_ado_pat, lines 247-248: the value of the variable that pat_env_var
\* names, ADO_PAT when the key is absent; <<>> when the variable is not set
get_ado_pat_DefaultOnly(metadata) ==
    IF "ADO_PAT" \in DOMAIN metadata.env
    THEN <<metadata.env["ADO_PAT"]>> ELSE <<>>

get_ado_pat(metadata) ==
    LET env_var == IF metadata.pat_env_var = <<>> THEN "ADO_PAT"
                   ELSE metadata.pat_env_var[1]
    IN  IF env_var \in DOMAIN metadata.env
        THEN <<metadata.env[env_var]>> ELSE <<>>

\* main(), lines 669-683: metadata.json, the PAT and the client
LoadConfig(p) ==
    LET r == run[p]
    IN  /\ r.pc = "config"
        /\ \E cfg \in Configs :
              run' = [run EXCEPT ![p] =
                 LET l == [r EXCEPT !.loaded = TRUE, !.cfg = <<cfg>>]
                     pat == get_ado_pat(cfg)
                 IN  IF ~cfg.file
                     THEN Exit(l, 1, <<"Error: ADO metadata file not found">>)
                     ELSE IF cfg.organization = "" \/ cfg.project = ""
                     THEN Exit(l, 1,
                        <<"Error: 'organization' and 'project' are required">>)
                     ELSE IF pat = <<>> \/ pat = <<"">>
                     THEN Exit(l, 1, <<"Error: Environment variable is not set">>)
                     ELSE [l EXCEPT !.client = TRUE, !.pc = "patch"]]
        /\ UNCHANGED <<gh, wiDescription, wiTags, wiPaths, wiChildren, wiComments,
                       wiRelations, runs, failures, prev, lastComment>>

\* main(), lines 685-691: update_work_item_description_and_tags
UpdateDescriptionAndTags(p) ==
    LET r == run[p]
        doc == PatchDocument(r.text, r.tags)
    IN  /\ r.pc = "patch"
        /\ \E st \in Responses(r.card[1]) :
              /\ failures' = failures + Failed(st)
              /\ run' = [run EXCEPT ![p] =
                    LET l == Logged(r, "update_work_item", st, doc)
                    IN  IF PatchIsFatal(st = 200)
                        THEN Exit(l, 1, UpdateWorkItemErr(st))
                        ELSE AfterPatch(l)]
              /\ wiDescription' =
                    IF st = 200
                    THEN FieldAfter(doc, "/fields/System.Description", wiDescription)
                    ELSE wiDescription
              /\ wiTags' =
                    IF st = 200
                    THEN FieldAfter(doc, "/fields/System.Tags", wiTags)
                    ELSE wiTags
        /\ UNCHANGED <<gh, wiPaths, wiChildren, wiComments, wiRelations, runs, prev,
                       lastComment>>

\* get_existing_child_titles, lines 405-428: the WIQL query for the children
ChildWiql(p) ==
    LET r == run[p]
    IN  /\ r.pc = "child_wiql"
        /\ \E st \in Responses(r.card[1]) :
              /\ failures' = failures + Failed(st)
              /\ run' = [run EXCEPT ![p] =
                    LET l == Logged(r, "wiql", st, <<>>)
                        child_ids == [k \in DOMAIN wiChildren |-> wiChildren[k].id]
                    IN  IF st # 200 \/ child_ids = <<>>
                        THEN [l EXCEPT !.existing = EmptyMap, !.pc = "parent"]
                        ELSE [l EXCEPT !.child_ids = child_ids, !.pc = "child_details"]]
        /\ UNCHANGED <<gh, wiDescription, wiTags, wiPaths, wiChildren, wiComments,
                       wiRelations, runs, prev, lastComment>>

\* the children of the card whose id is among ids, in order
RECURSIVE ItemsOf(_, _)
ItemsOf(items, ids) ==
    IF items = <<>> THEN <<>>
    ELSE IF \E k \in DOMAIN ids : ids[k] = items[1].id
         THEN <<items[1]>> \o ItemsOf(Tail(items), ids)
         ELSE ItemsOf(Tail(items), ids)

\* get_existing_child_titles, lines 430-443: the titles of the children
ChildDetails(p) ==
    LET r == run[p]
    IN  /\ r.pc = "child_details"
        /\ \E st \in Responses(r.card[1]) :
              /\ failures' = failures + Failed(st)
              /\ run' = [run EXCEPT ![p] =
                    LET l == Logged(r, "get_work_items", st, r.child_ids)
                        items == ItemsOf(wiChildren, r.child_ids)
                    IN  IF st # 200
                        THEN [l EXCEPT !.existing = EmptyMap, !.pc = "parent"]
                        ELSE [l EXCEPT !.fetched = items,
                                       !.existing = ChildTitles(items),
                                       !.pc = "parent"]]
        /\ UNCHANGED <<gh, wiDescription, wiTags, wiPaths, wiChildren, wiComments,
                       wiRelations, runs, prev, lastComment>>

\* sync_child_items, lines 460-467: the parent, for its area and iteration
ParentFetch(p) ==
    LET r == run[p]
    IN  /\ r.pc = "parent"
        /\ \E st \in Responses(r.card[1]) :
              /\ failures' = failures + Failed(st)
              /\ run' = [run EXCEPT ![p] =
                    LET l == Logged(r, "get_work_item", st, <<>>)
                    IN  IF st # 200
                        THEN AfterChildren(
                               [l EXCEPT !.stderr = @ \o GetWorkItemErr(st)
                                   \o <<"Error: Could not fetch parent work item">>])
                        ELSE [l EXCEPT !.parent = <<wiPaths>>, !.ci = 1,
                                       !.pc = "child_loop"]]
        /\ UNCHANGED <<gh, wiDescription, wiTags, wiPaths, wiChildren, wiComments,
                       wiRelations, runs, prev, lastComment>>

\* a loop that ends at the first create_work_item that fails
NextChild_StopOnFailure(r) ==
    IF \/ r.ci >= Len(r.children)
       \/ r.log[Len(r.log)].at = "child_loop" /\ r.log[Len(r.log)].status # 200
    THEN AfterChildren([r EXCEPT !.ci = @ + 1])
    ELSE [r EXCEPT !.ci = @ + 1]

\* the position after one iteration of the loop of sync_child_items
NextChild(r) ==
    IF r.ci >= Len(r.children) THEN AfterChildren([r EXCEPT !.ci = @ + 1])
    ELSE [r EXCEPT !.ci = @ + 1]

\* sync_child_items, lines 469-472: a title that is already in `existing`
ChildSkip(p) ==
    LET r == run[p]
    IN  /\ r.pc = "child_loop"
        /\ ChildExists(r.children[r.ci], r.existing)
        /\ run' = [run EXCEPT ![p] = NextChild(r)]
        /\ UNCHANGED <<gh, wiDescription, wiTags, wiPaths, wiChildren, wiComments,
                       wiRelations, runs, failures, prev, lastComment>>

\* the child a create call makes of the card, if the document links it there
CreatedChildren_UniqueTitle(doc, id) ==
    LET title == FieldAfter(doc, "/fields/System.Title", <<<<>>>>)[1]
    IN  IF /\ \E k \in DOMAIN doc :
                /\ doc[k].path = "/relations/-"
                /\ doc[k].value.rel = "System.LinkTypes.Hierarchy-Reverse"
                /\ doc[k].value.url = RemoteCard
           /\ \A k \in DOMAIN wiChildren : Lower(wiChildren[k].title) # Lower(title)
        THEN <<[id |-> id, title |-> title]>>
        ELSE <<>>

CreatedChildren(doc, id) ==
    IF \E k \in DOMAIN doc :
          /\ doc[k].path = "/relations/-"
          /\ doc[k].value.rel = "System.LinkTypes.Hierarchy-Reverse"
          /\ doc[k].value.url = RemoteCard
    THEN <<[id |-> id, title |-> FieldAfter(doc, "/fields/System.Title", <<<<>>>>)[1]]>>
    ELSE <<>>

\* sync_child_items, lines 474-505: one create_work_item("Task", ...)
ChildCreate(p) ==
    LET r == run[p]
        title == r.children[r.ci]
        doc == ChildDocument(title, r.card[1], r.parent[1].area, r.parent[1].iteration)
    IN  /\ r.pc = "child_loop"
        /\ ~ChildExists(title, r.existing)
        /\ \E st \in Responses(r.card[1]) :
              /\ failures' = failures + Failed(st)
              /\ run' = [run EXCEPT ![p] =
                    LET l == Logged(r, "create_work_item", st, doc)
                    IN  NextChild(
                          IF st = 200 THEN l
                          ELSE [l EXCEPT !.stderr = @ \o CreateWorkItemErr(st)
                                   \o <<"Failed to create child">>])]
              /\ wiChildren' =
                    IF st = 200
                    THEN wiChildren \o CreatedChildren(doc, NewWorkItemId)
                    ELSE wiChildren
        /\ UNCHANGED <<gh, wiDescription, wiTags, wiPaths, wiComments, wiRelations,
                       runs, prev, lastComment>>

\* sync_comment, lines 523-524: get_comments
CommentList(p) ==
    LET r == run[p]
    IN  /\ r.pc = "comment_list"
        /\ \E st \in Responses(r.card[1]) :
              /\ failures' = failures + Failed(st)
              /\ run' = [run EXCEPT ![p] =
                    LET l == Logged(r, "get_comments", st, <<>>)
                    IN  IF st = 200
                        THEN [l EXCEPT !.comments = wiComments, !.pc = "comment_sync"]
                        ELSE [l EXCEPT !.comments = <<>>, !.pc = "comment_sync",
                                       !.stderr = @ \o GetCommentsErr(st)]]
        /\ UNCHANGED <<gh, wiDescription, wiTags, wiPaths, wiChildren, wiComments,
                       wiRelations, runs, prev, lastComment>>

\* sync_comment, lines 526-531: update the first comment with the marker
CommentUpdate(p) ==
    LET r == run[p]
        k == FirstMarked(r.comments)
        full_comment == FullComment(r.comment[1])
    IN  /\ r.pc = "comment_sync"
        /\ k # 0
        /\ \E st \in Responses(r.card[1]) :
              /\ failures' = failures + Failed(st)
              /\ run' = [run EXCEPT ![p] =
                    LET l == Logged(r, "update_comment", st,
                                    [comment_id |-> r.comments[k].id,
                                     text |-> full_comment])
                    IN  AfterComment([l EXCEPT !.stderr = @ \o UpdateCommentErr(st)])]
              /\ wiComments' =
                    IF st = 200
                    THEN [j \in DOMAIN wiComments |->
                            IF wiComments[j].id = r.comments[k].id
                            THEN [id |-> wiComments[j].id, text |-> full_comment]
                            ELSE wiComments[j]]
                    ELSE wiComments
        /\ lastComment' = r.comment
        /\ UNCHANGED <<gh, wiDescription, wiTags, wiPaths, wiChildren, wiRelations,
                       runs, prev>>

\* sync_comment, lines 533-536: no comment with the marker, add one
CommentAdd(p) ==
    LET r == run[p]
        full_comment == FullComment(r.comment[1])
    IN  /\ r.pc = "comment_sync"
        /\ FirstMarked(r.comments) = 0
        /\ \E st \in Responses(r.card[1]) :
              /\ failures' = failures + Failed(st)
              /\ run' = [run EXCEPT ![p] =
                    LET l == Logged(r, "add_comment", st, [text |-> full_comment])
                    IN  AfterComment([l EXCEPT !.stderr = @ \o AddCommentErr(st)])]
              /\ wiComments' =
                    IF st = 200
                    THEN Append(wiComments, [id |-> NewCommentId, text |-> full_comment])
                    ELSE wiComments
        /\ lastComment' = r.comment
        /\ UNCHANGED <<gh, wiDescription, wiTags, wiPaths, wiChildren, wiRelations,
                       runs, prev>>

\* sync_hyperlinks, lines 565-566: get_existing_hyperlinks
LinkFetch(p) ==
    LET r == run[p]
    IN  /\ r.pc = "link_fetch"
        /\ \E st \in Responses(r.card[1]) :
              /\ failures' = failures + Failed(st)
              /\ run' = [run EXCEPT ![p] =
                    LET l == Logged(r, "get_work_item", st, <<>>)
                    IN  IF st = 200
                        THEN [l EXCEPT !.relations = wiRelations,
                                       !.urls = ExistingUrls(wiRelations),
                                       !.li = 1, !.pc = "link_loop"]
                        ELSE [l EXCEPT !.urls = {}, !.li = 1, !.pc = "link_loop",
                                       !.stderr = @ \o GetWorkItemErr(st)]]
        /\ UNCHANGED <<gh, wiDescription, wiTags, wiPaths, wiChildren, wiComments,
                       wiRelations, runs, prev, lastComment>>

\* the position after one iteration of the loop of sync_hyperlinks
NextLink(r) ==
    IF r.li >= Len(r.links) THEN Finish([r EXCEPT !.li = @ + 1])
    ELSE [r EXCEPT !.li = @ + 1]

\* sync_hyperlinks, lines 568-571: a url that is already in `existing`
LinkSkip(p) ==
    LET r == run[p]
    IN  /\ r.pc = "link_loop"
        /\ UrlExists(r.links[r.li].url, r.urls)
        /\ run' = [run EXCEPT ![p] = NextLink(r)]
        /\ UNCHANGED <<gh, wiDescription, wiTags, wiPaths, wiChildren, wiComments,
                       wiRelations, runs, failures, prev, lastComment>>

\* sync_hyperlinks, lines 573-588: one patch that adds a Hyperlink relation
LinkAdd(p) ==
    LET r == run[p]
        link == r.links[r.li]
        doc == LinkDocument(link.url, link.name)
    IN  /\ r.pc = "link_loop"
        /\ ~UrlExists(link.url, r.urls)
        /\ \E st \in Responses(r.card[1]) :
              /\ failures' = failures + Failed(st)
              /\ run' = [run EXCEPT ![p] =
                    LET l == Logged(r, "update_work_item", st, doc)
                    IN  NextLink(
                          IF st = 200 THEN l
                          ELSE [l EXCEPT !.stderr = @ \o UpdateWorkItemErr(st)
                                   \o <<"Failed to add link">>])]
              /\ wiRelations' =
                    IF st = 200
                    THEN wiRelations \o OfKind(AddedRelations(doc), "Hyperlink")
                    ELSE wiRelations
        /\ UNCHANGED <<gh, wiDescription, wiTags, wiPaths, wiChildren, wiComments,
                       runs, prev, lastComment>>

----------------------------------------------------------------------------
(* The specification: sequential runs of one process                       *)

\* the cards a behaviour can start from: children with pairwise distinct
\* titles, hyperlinks with pairwise distinct URLs, no comment of the tool
InitCards ==
    { [paths |-> [area |-> <<"A">>, iteration |-> <<>>],
       children |-> <<>>,
       comments |-> <<>>,
       relations |-> <<>>],
      [paths |-> [area |-> <<>>, iteration |-> <<"I">>],
       children |-> <<[id |-> RemoteCard + 1, title |-> <<"a","B">>]>>,
       comments |-> <<[id |-> 1, text |-> <<"o","k">>]>>,
       relations |-> <<[rel |-> "Hyperlink", url |-> <<"u">>,
                        attributes |-> [comment |-> <<"x">>]]>>] }

Init ==
    /\ \E c \in InitCards :
          /\ wiPaths = c.paths
          /\ wiChildren = c.children
          /\ wiComments = c.comments
          /\ wiRelations = c.relations
    /\ wiDescription = <<>>
    /\ wiTags = << <<"o">> >>
    /\ run = [p \in Procs |-> IdleRun]
    /\ runs = 0
    /\ failures = 0
    /\ prev = [text |-> <<>>, ok |-> FALSE, card |-> <<>>]
    /\ lastComment = <<>>
    /\ gh = IdleGh

Next ==
    \/ \E t \in Texts : Start(1, t)
    \/ ExtractCard(1)
    \/ ExtractDirectives(1)
    \/ LoadConfig(1)
    \/ UpdateDescriptionAndTags(1)
    \/ ChildWiql(1)
    \/ ChildDetails(1)
    \/ ParentFetch(1)
    \/ ChildSkip(1)
    \/ ChildCreate(1)
    \/ CommentList(1)
    \/ CommentUpdate(1)
    \/ CommentAdd(1)
    \/ LinkFetch(1)
    \/ LinkSkip(1)
    \/ LinkAdd(1)

Spec == Init /\ [][Next]_vars

\* the PR descriptions of two workflow runs that overlap on one card
ConcTexts ==
    { LineCard42 \o LineCommentYo \o BlockLinks \o LineTagsLast,
      LineCard42 \o LineTags \o BlockChildren \o LineCommentHi \o BlockLinks }

\* one of the overlapping runs starts: each process runs main() once
StartOnce(p, t) ==
    /\ run[p].pc = "idle"
    /\ Start(p, t)

\* two processes run main() on the same card; their steps interleave at
\* every remote call
NextConc ==
    \E p \in Procs :
        \/ \E t \in ConcTexts : StartOnce(p, t)
        \/ ExtractCard(p)
        \/ ExtractDirectives(p)
        \/ LoadConfig(p)
        \/ UpdateDescriptionAndTags(p)
        \/ ChildWiql(p)
        \/ ChildDetails(p)
        \/ ParentFetch(p)
        \/ ChildSkip(p)
        \/ ChildCreate(p)
        \/ CommentList(p)
        \/ CommentUpdate(p)
        \/ CommentAdd(p)
        \/ LinkFetch(p)
        \/ LinkSkip(p)
        \/ LinkAdd(p)

SpecConc == Init /\ [][NextConc]_vars

\* the lines the parsed PR descriptions are made of: directive lines,
\* bullets, a blank line, and text that is no directive
\* "ado x\n"
FragAdoText ==
    <<"a","d","o"," ","x","\n">>

\* "ADO Children:\n- a\n"
FragChildren ==
    <<"A","D","O"," ","C","h","i","l","d","r","e","n",":","\n","-"," ","a",
      "\n">>

\* "ADO Links:\n- u\n"
FragLinks ==
    <<"A","D","O"," ","L","i","n","k","s",":","\n","-"," ","u","\n">>

\* "\n"
FragBlank ==
    <<"\n">>

\* "* v | n\n"
FragBullet ==
    <<"*"," ","v"," ","|"," ","n","\n">>

\* "- | n\n"
FragBulletNoUrl ==
    <<"-"," ","|"," ","n","\n">>

ParseFragments ==
    <<LineCommentHi, FragAdoText, LineTags, FragChildren, FragLinks, FragBlank,
      FragBullet, FragBulletNoUrl>>

\* fragments after the card line of a parsed PR description
MaxFragments == 3

\* the sequences of fragments, by their index in ParseFragments
ParseInputs == UNION {[1..n -> DOMAIN ParseFragments] : n \in 0..MaxFragments}

\* the fragments of a sequence, one after the other
RECURSIVE Flatten(_)
Flatten(fs) ==
    IF fs = <<>> THEN <<>> ELSE ParseFragments[fs[1]] \o Flatten(Tail(fs))

\* the PR descriptions the extractors are applied to: "ADO Card: 42\n" and
\* then up to MaxFragments fragments
ParseTexts == {LineCard42 \o Flatten(fs) : fs \in ParseInputs}

\* main() up to the extraction of the directives, lines 631-658, on the
\* descriptions of ParseTexts
NextParse ==
    \/ \E t \in ParseTexts : Start(1, t)
    \/ ExtractCard(1)
    \/ ExtractDirectives(1)

SpecParse == Init /\ [][NextParse]_vars

----------------------------------------------------------------------------
(* gh_repo_automation.py: one action over the configured repositories      *)

\* the longest "repositories" list of a configuration file
MaxRepos == 2

GhActions == {"sync-files", "create-pr", "set-secret", "add-reviewers"}

adoVars ==
    <<wiDescription, wiTags, wiPaths, wiChildren, wiComments, wiRelations,
      run, runs, failures, prev, lastComment>>

\* one command of sync_files_to_repo and how it ended: "ok", "failed"
\* (CalledProcessError), "nothing" (no file copied), "raised" (OSError)
Step(g, name, out) == [g EXCEPT !.steps = Append(@, [step |-> name, out |-> out])]

\* the for body of an action, lines 435-440, 475-478, 509-512, 539-542:
\* count the repository and go to the next one
Counted(g, ok, pr_url) ==
    [g EXCEPT !.pc = "loop",
              !.attempts = Append(@, [repo |-> g.i, ok |-> ok, steps |-> g.steps]),
              !.steps = <<>>,
              !.i = @ + 1,
              !.success = IF ok THEN @ + 1 ELSE @,
              !.failed = IF ok THEN @ ELSE @ + 1,
              !.pr_urls = IF ok /\ pr_url # <<>> /\ pr_url[1] # <<>>
                          THEN Append(@, pr_url[1]) ELSE @]

NextStep_IgnoreFailure(out, next) == next

\* `if not clone_repo(...)`, `except subprocess.CalledProcessError`,
\* `if not commit_and_push(...)`: `return False, None` unless the command
\* succeeded
NextStep(out, next) == IF out = "ok" THEN next ELSE "return"

\* a command of sync_files_to_repo before the pull request is created
Advance(g, name, out, next) ==
    LET s == Step(g, name, out)
    IN  IF NextStep(out, next) = "return"
        THEN Counted(s, FALSE, <<>>)
        ELSE [s EXCEPT !.pc = NextStep(out, next)]

\* the text gh prints for a created pull request, stripped: it can be empty
PrUrls == {<<>>, <<"u">>}

\* main, lines 547-623, and the action up to its loop: `valid` says that the
\* sources exist, the secret value is given, the reviewers are not empty;
\* `body` that --body is given
GhMain(action, n, valid, body) ==
    /\ gh.pc = "idle"
    /\ gh' = IF valid \/ action = "create-pr"
             THEN [gh EXCEPT !.pc = "loop", !.action = action, !.n = n,
                             !.body = body]
             ELSE [gh EXCEPT !.pc = "exit", !.action = action, !.n = n,
                             !.body = body, !.exit = <<1>>]
    /\ UNCHANGED adoVars

InSync(pc) ==
    /\ gh.action = "sync-files"
    /\ gh.pc = pc

\* sync_files_to_repo, lines 335-337: clone_repo
CloneRepo ==
    /\ InSync("loop")
    /\ gh.i <= gh.n
    /\ \E out \in {"ok", "failed"} : gh' = Advance(gh, "clone", out, "checkout_base")
    /\ UNCHANGED adoVars

\* lines 341-346: git checkout base
CheckoutBase ==
    /\ InSync("checkout_base")
    /\ \E out \in {"ok", "failed"} :
          gh' = Advance(gh, "checkout_base", out, "checkout_b")
    /\ UNCHANGED adoVars

\* lines 347-352: git checkout -b branch
CheckoutNewBranch ==
    /\ InSync("checkout_b")
    /\ \E out \in {"ok", "failed"} : gh' = Advance(gh, "checkout_b", out, "copy")
    /\ UNCHANGED adoVars

\* lines 361-368: copy_source_to_dest for every source; mkdir, copy2, rmtree
\* and copytree raise OSError, which nothing catches
CopySources ==
    /\ InSync("copy")
    /\ \E out \in {"ok", "nothing", "raised"} :
          gh' = IF out = "raised"
                THEN [Step(gh, "copy", out) EXCEPT !.pc = "crashed", !.exit = <<1>>]
                ELSE Advance(gh, "copy", out, "commit_checkout")
    /\ UNCHANGED adoVars

\* commit_and_push, lines 230-235: git checkout -B branch
CommitCheckout ==
    /\ InSync("commit_checkout")
    /\ \E out \in {"ok", "failed"} :
          gh' = Advance(gh, "checkout_B", out, "commit_add")
    /\ UNCHANGED adoVars

\* commit_and_push, lines 238-244: git add files
CommitAdd ==
    /\ InSync("commit_add")
    /\ \E out \in {"ok", "failed"} : gh' = Advance(gh, "add", out, "commit")
    /\ UNCHANGED adoVars

\* commit_and_push, lines 254-259: git commit
Commit ==
    /\ InSync("commit")
    /\ \E out \in {"ok", "failed"} : gh' = Advance(gh, "commit", out, "push")
    /\ UNCHANGED adoVars

\* commit_and_push, lines 262-267: git push
Push ==
    /\ InSync("push")
    /\ \E out \in {"ok", "failed"} : gh' = Advance(gh, "push", out, "create_pr")
    /\ UNCHANGED adoVars

\* sync_files_to_repo, lines 375-385: create_pr and
\* `return pr_url is not None, pr_url`
SyncCreatePr ==
    /\ InSync("create_pr")
    /\ \/ gh' = Counted(Step(gh, "create_pr", "failed"), FALSE, <<>>)
       \/ \E url \in PrUrls : gh' = Counted(Step(gh, "create_pr", "ok"), TRUE, <<url>>)
    /\ UNCHANGED adoVars

InLoop(action) ==
    /\ gh.action = action
    /\ gh.pc = "loop"
    /\ gh.i <= gh.n

\* action_create_pr, lines 464-478: `if result:`; without --body the
\* argument list holds None and run_gh raises TypeError at line 90
ActionCreatePr ==
    /\ InLoop("create-pr")
    /\ IF ~gh.body
       THEN gh' = [Step(gh, "create_pr", "raised") EXCEPT !.pc = "crashed",
                                                         !.exit = <<1>>]
       ELSE \/ gh' = Counted(Step(gh, "create_pr", "failed"), FALSE, <<>>)
            \/ \E url \in PrUrls :
                  gh' = Counted(Step(gh, "create_pr", "ok"), url # <<>>, <<>>)
    /\ UNCHANGED adoVars

\* action_set_secret, lines 507-512
ActionSetSecret ==
    /\ InLoop("set-secret")
    /\ \E ok \in BOOLEAN :
          gh' = Counted(Step(gh, "set_secret", IF ok THEN "ok" ELSE "failed"),
                        ok, <<>>)
    /\ UNCHANGED adoVars

\* action_add_reviewers, lines 537-542
ActionAddReviewers ==
    /\ InLoop("add-reviewers")
    /\ \E ok \in BOOLEAN :
          gh' = Counted(Step(gh, "add_reviewers", IF ok THEN "ok" ELSE "failed"),
                        ok, <<>>)
    /\ UNCHANGED adoVars

\* the end of every action: print "Results: ..." after the last repository
PrintResults ==
    /\ gh.pc = "loop"
    /\ gh.i > gh.n
    /\ gh' = [gh EXCEPT !.pc = "done", !.exit = <<0>>]
    /\ UNCHANGED adoVars

NextGh ==
    \/ \E action \in GhActions, n \in 0..MaxRepos, valid, body \in BOOLEAN :
          GhMain(action, n, valid, body)
    \/ CloneRepo
    \/ CheckoutBase
    \/ CheckoutNewBranch
    \/ CopySources
    \/ CommitCheckout
    \/ CommitAdd
    \/ Commit
    \/ Push
    \/ SyncCreatePr
    \/ ActionCreatePr
    \/ ActionSetSecret
    \/ ActionAddReviewers
    \/ PrintResults

SpecGh == Init /\ [][NextGh]_vars

----------------------------------------------------------------------------
(* Properties                                                              *)

DescriptionPath == "/fields/System.Description"
TagsPath == "/fields/System.Tags"
TitlePath == "/fields/System.Title"

\* the entries of a log that satisfy a test, in order
Entries(log, Test(_)) == SelectSeq(log, Test)

HasPath(doc, path) == \E k \in DOMAIN doc : doc[k].path = path

IsDescriptionPatch(e) == e.op = "update_work_item" /\ HasPath(e.body, DescriptionPath)
IsLinkAdd(e) == e.op = "update_work_item" /\ HasPath(e.body, "/relations/-")
IsChildCreate(e) == e.op = "create_work_item"
IsCommentAdd(e) == e.op = "add_comment"
IsCommentUpdate(e) == e.op = "update_comment"
IsCommentCall(e) == e.op \in {"get_comments", "add_comment", "update_comment"}

\* a call of the child, comment or hyperlink reconciler, read or mutation
IsReconcilerCall(e) == ~IsDescriptionPatch(e)

Member(x, seq) == \E k \in DOMAIN seq : seq[k] = x

NoCardMessage == "No ADO Card number found in PR description"

\* the text holds a match of  ADO Card: <digits>
HasCardMatch(s) == \E i \in 1..Len(s) : CardMatchAt(s, i)

\* the text holds an  ADO Tags:  line with nothing but whitespace after the colon
HasEmptyTagsLine(s) ==
    \E i \in 1..Len(s) :
        LET c == DirectiveHead(s, i, KwTags)
        IN  c # 0 /\ Strip(SubSeq(s, c, LineEnd(s, c) - 1)) = <<>>

\* C1: the children of the card never come to hold two titles that are
\* equal ignoring case, here even when no remote call fails.
C1_ChildTitlesUnique ==
    failures = 0 =>
        \A i, j \in DOMAIN wiChildren :
            i # j => Lower(wiChildren[i].title) # Lower(wiChildren[j].title)

\* C2: the hyperlink relations of the card never come to hold the same URL
\* twice, here even when no remote call fails.
C2_HyperlinkUrlsUnique ==
    failures = 0 =>
        \A i, j \in DOMAIN wiRelations :
            i # j => wiRelations[i].url # wiRelations[j].url

\* a run that ended with code 0 and no failed call, on the text of the run
\* before it, which ended the same way
SecondApplication(r) ==
    r.pc = "exit" /\ RunOk(r) /\ prev.ok /\ prev.text = r.text

\* C3 as stated: the second application creates no child, adds no
\* hyperlink, updates exactly one comment and adds none, and leaves the card
\* as the first application left it.
C3_SecondRunUpdatesOneComment ==
    \A p \in Procs :
        SecondApplication(run[p]) =>
            /\ Entries(run[p].log, IsChildCreate) = <<>>
            /\ Entries(run[p].log, IsLinkAdd) = <<>>
            /\ Entries(run[p].log, IsCommentAdd) = <<>>
            /\ Len(Entries(run[p].log, IsCommentUpdate)) = 1
            /\ remote = prev.card

\* C3 amended: the second application creates no child, adds no hyperlink,
\* adds no comment, updates exactly one comment when the text carries a
\* comment directive and makes no comment call when it carries none, and
\* leaves the card as the first application left it.
C3_Idempotent ==
    \A p \in Procs :
        SecondApplication(run[p]) =>
            /\ Entries(run[p].log, IsChildCreate) = <<>>
            /\ Entries(run[p].log, IsLinkAdd) = <<>>
            /\ Entries(run[p].log, IsCommentAdd) = <<>>
            /\ HasComment(run[p].comment) =>
                  Len(Entries(run[p].log, IsCommentUpdate)) = 1
            /\ ~HasComment(run[p].comment) =>
                  Entries(run[p].log, IsCommentCall) = <<>>
            /\ remote = prev.card

C3_Witness ==
    /\ SecondApplication(run[1])
    /\ HasComment(run[1].comment)
    /\ run[1].children # <<>>
    /\ run[1].links # <<>>
    /\ wiChildren # <<>>
    /\ wiRelations # <<>>

\* the comments of the card that hold the marker, in order
MarkerComments == SelectSeq(wiComments, HasMarker)

\* C4: after any runs of sync_comment whose calls all succeeded, the card
\* has exactly one comment with the marker, and it reads marker, newline,
\* the text of the latest run.
C4_SingleToolComment ==
    (failures = 0 /\ lastComment # <<>>) =>
        /\ Len(MarkerComments) = 1
        /\ MarkerComments[1].text = COMMENT_MARKER \o <<"\n">> \o lastComment[1]

C4_Witness ==
    /\ failures = 0
    /\ run[1].pc = "exit"
    /\ lastComment = << <<"y","o">> >>
    /\ prev.ok
    /\ Contains(prev.text, LineCommentHi)
    /\ Len(MarkerComments) = 1

\* C5: a text with an  ADO Tags:  line of empty value yields the empty tag
\* list, and the description/tags patch removes the Tags field.
C5_EmptyTagsLineClearsTags ==
    \A p \in Procs :
        (run[p].extracted /\ HasEmptyTagsLine(run[p].text)) =>
            /\ run[p].tags = <<>>
            /\ \A k \in DOMAIN run[p].log :
                  IsDescriptionPatch(run[p].log[k]) =>
                      \E j \in DOMAIN run[p].log[k].body :
                          /\ run[p].log[k].body[j].path = TagsPath
                          /\ run[p].log[k].body[j].op = "remove"

\* the tags joined by "; " in order
RECURSIVE SemicolonJoined(_)
SemicolonJoined(tags) ==
    IF Len(tags) = 1 THEN tags[1]
    ELSE SemicolonJoined(SubSeq(tags, 1, Len(tags) - 1))
         \o <<";", " ">> \o tags[Len(tags)]

\* C6: a run that has reached the reconcilers has issued exactly one patch
\* of the Description, on its card: a replace of Description by the whole
\* text, then one Tags operation, a replace by the tags joined by "; " when
\* there are tags and a remove when there are none.
C6_UnconditionalOverwrite ==
    \A p \in Procs :
        LET r == run[p]
            patches == Entries(r.log, IsDescriptionPatch)
        IN  (r.client /\ r.pc # "patch") =>
                /\ Len(patches) = 1
                /\ patches[1].id = r.card[1]
                /\ Len(patches[1].body) = 2
                /\ patches[1].body[1] =
                      [op |-> "replace", path |-> DescriptionPath, value |-> r.text]
                /\ patches[1].body[2].path = TagsPath
                /\ IF r.tags = <<>>
                   THEN patches[1].body[2].op = "remove"
                   ELSE /\ patches[1].body[2].op = "replace"
                        /\ patches[1].body[2].value = SemicolonJoined(r.tags)

C6_Witness ==
    /\ run[1].pc = "exit"
    /\ run[1].exit = <<0>>
    /\ Len(run[1].tags) = 2
    /\ wiTags = << <<"b", ";", " ", "u">> >>
    /\ wiDescription = <<run[1].text>>
    /\ prev.ok
    /\ prev.text # <<>>
    /\ prev.card[2] = <<>>

\* C7: the first call of a run is the Description/Tags patch, and when it
\* fails the run makes no other call and exits with code 1.
C7_FatalFirstPatch ==
    \A p \in Procs :
        LET r == run[p]
        IN  r.log # <<>> =>
                /\ IsDescriptionPatch(r.log[1])
                /\ \A k \in 2..Len(r.log) : IsReconcilerCall(r.log[k])
                /\ r.log[1].status # 200 =>
                      Len(r.log) = 1 /\ r.pc = "exit" /\ r.exit = <<1>>

C7_Witness ==
    /\ run[1].pc = "exit"
    /\ run[1].exit = <<1>>
    /\ Len(run[1].log) = 1
    /\ run[1].log[1].status = 500
    /\ run[1].children # <<>>
    /\ HasComment(run[1].comment)
    /\ run[1].links # <<>>

\* C8: a run on a non-empty text without a card match exits with code 1
\* before the other extractors run, before the configuration is loaded and
\* before any call to the work-item service.
C8_MissingCardIsTerminal ==
    \A p \in Procs :
        LET r == run[p]
        IN  (r.pc \notin {"idle", "main"} /\ r.text # <<>> /\ ~HasCardMatch(r.text)) =>
                /\ r.pc = "exit"
                /\ r.exit = <<1>>
                /\ Member(NoCardMessage, r.stderr)
                /\ ~r.extracted
                /\ ~r.loaded
                /\ ~r.client
                /\ r.log = <<>>

C8_Witness ==
    /\ run[1].pc = "exit"
    /\ run[1].exit = <<1>>
    /\ ~HasCardMatch(run[1].text)
    /\ Contains(run[1].text, LineTags)
    /\ Contains(run[1].text, BlockChildren)

\* C9: a run on a text with a card match, whatever its digits, does not
\* fail with the missing-card-id error.
C9_CardMatchIsAccepted ==
    \A p \in Procs :
        (run[p].pc \notin {"idle", "main"} /\ HasCardMatch(run[p].text)) =>
            ~Member(NoCardMessage, run[p].stderr)

\* the titles that differ, ignoring case, from every fetched child's title
RECURSIVE MissingTitles(_, _)
MissingTitles(titles, fetched) ==
    IF titles = <<>> THEN <<>>
    ELSE (IF \E k \in DOMAIN fetched : Lower(fetched[k].title) = Lower(titles[1])
          THEN <<>> ELSE <<titles[1]>>)
         \o MissingTitles(Tail(titles), fetched)

\* the Title each create call of a log carries, in order
CreatedTitles(log) ==
    LET creates == Entries(log, IsChildCreate)
    IN  [k \in DOMAIN creates |->
            creates[k].body[CHOOSE j \in DOMAIN creates[k].body :
                               creates[k].body[j].path = TitlePath].value]

\* C10: once the loop of sync_child_items runs, the create calls issued so
\* far are, in order and one each, those for the requested titles handled
\* so far that equal no fetched child's title ignoring case, and each
\* carries the requested title as written.
C10_ChildDiffByLoweredTitle ==
    \A p \in Procs :
        LET r == run[p]
        IN  r.parent # <<>> =>
                CreatedTitles(r.log)
                    = MissingTitles(SubSeq(r.children, 1, r.ci - 1), r.fetched)

C10_Witness ==
    /\ run[1].pc = "exit"
    /\ run[1].parent # <<>>
    /\ run[1].ci = 3
    /\ run[1].fetched = <<[id |-> RemoteCard + 1, title |-> <<"a","B">>]>>
    /\ run[1].children = << <<"a","b">>, <<"c">> >>
    /\ CreatedTitles(run[1].log) = << <<"c">> >>

\* the calls a run issued at one position of main(), in order
CallsAt(log, pc) ==
    LET at == {k \in DOMAIN log : log[k].at = pc}
        F[k \in 0..Len(log)] ==
            IF k = 0 THEN <<>>
            ELSE IF k \in at THEN Append(F[k - 1], log[k]) ELSE F[k - 1]
    IN  F[Len(log)]

\* the requested links whose url is the url of no fetched Hyperlink relation
RECURSIVE MissingLinks(_, _)
MissingLinks(links, fetched) ==
    IF links = <<>> THEN <<>>
    ELSE (IF \E k \in DOMAIN fetched :
                fetched[k].rel = "Hyperlink" /\ fetched[k].url = links[1].url
          THEN <<>> ELSE <<links[1]>>)
         \o MissingLinks(Tail(links), fetched)

\* the patch the specification describes for one link
HyperlinkPatch(link) ==
    <<[op |-> "add", path |-> "/relations/-",
       value |-> [rel |-> "Hyperlink", url |-> link.url,
                  attributes |-> [comment |-> link.name]]]>>

\* C11: once sync_hyperlinks has fetched the existing relations, the calls
\* of its loop are, in input order and one each, a patch for every pair
\* handled so far whose url is the url of no fetched Hyperlink relation,
\* whatever the labels; the patch adds a Hyperlink relation with that url
\* and the name as its comment attribute.
C11_LinkDiffByUrl ==
    \A p \in Procs :
        LET r == run[p]
            calls == CallsAt(r.log, "link_loop")
            missing == MissingLinks(SubSeq(r.links, 1, r.li - 1), r.relations)
        IN  CallsAt(r.log, "link_fetch") # <<>> =>
                /\ Len(calls) = Len(missing)
                /\ \A k \in DOMAIN calls :
                       /\ calls[k].op = "update_work_item"
                       /\ calls[k].body = HyperlinkPatch(missing[k])

C11_Witness ==
    /\ run[1].pc = "exit"
    /\ run[1].links = <<[url |-> <<"u">>, name |-> <<"u">>],
                        [url |-> <<"v">>, name |-> <<"n">>]>>
    /\ run[1].relations = <<[rel |-> "Hyperlink", url |-> <<"u">>,
                             attributes |-> [comment |-> <<"x">>]]>>
    /\ Len(CallsAt(run[1].log, "link_loop")) = 1
    /\ Len(wiRelations) = 2
    /\ wiRelations[2].url = <<"v">>
    /\ wiRelations[2].attributes.comment = <<"n">>

\* the children of the card whose title equals a title ignoring case
ChildrenTitled(title) ==
    {k \in DOMAIN wiChildren : Lower(wiChildren[k].title) = Lower(title)}

\* the Hyperlink relations of the card that carry a url
RelationsTo(url) ==
    {k \in DOMAIN wiRelations :
        wiRelations[k].rel = "Hyperlink" /\ wiRelations[k].url = url}

\* C12: two overlapping runs of one PR description whose calls all succeed
\* and that read the same existing children (neither read saw a child the
\* other created) leave at least two children for every requested title
\* that was missing; likewise two runs that fetched the same relations leave
\* at least two hyperlinks for every requested url that was missing.
\* Nothing on the card or in the calls stops the second creation.
C12_LostUpdateRace ==
    \A p, q \in Procs :
        LET r == run[p]
            o == run[q]
        IN  (p # q /\ RunOk(r) /\ RunOk(o) /\ r.text = o.text) =>
                /\ (r.parent # <<>> /\ o.parent # <<>> /\ r.fetched = o.fetched) =>
                       \A k \in DOMAIN MissingTitles(r.children, r.fetched) :
                          Cardinality(ChildrenTitled(
                              MissingTitles(r.children, r.fetched)[k])) >= 2
                /\ (/\ CallsAt(r.log, "link_fetch") # <<>>
                    /\ CallsAt(o.log, "link_fetch") # <<>>
                    /\ r.relations = o.relations) =>
                       \A k \in DOMAIN MissingLinks(r.links, r.relations) :
                          Cardinality(RelationsTo(
                              MissingLinks(r.links, r.relations)[k].url)) >= 2

C12_Witness ==
    /\ RunOk(run[1]) /\ RunOk(run[2])
    /\ failures = 0
    /\ run[1].text = run[2].text
    /\ run[1].children = << <<"a","b">>, <<"c">> >>
    /\ run[1].parent # <<>> /\ run[2].parent # <<>>
    /\ run[1].fetched = <<>> /\ run[2].fetched = <<>>
    /\ Len(wiChildren) = 4
    /\ Cardinality(ChildrenTitled(<<"a","b">>)) = 2
    /\ Cardinality(ChildrenTitled(<<"c">>)) = 2
    /\ run[1].relations = <<>> /\ run[2].relations = <<>>
    /\ Cardinality(RelationsTo(<<"u">>)) = 2
    /\ Cardinality(RelationsTo(<<"v">>)) = 2

\* the Tags field a DirectiveSet asks for: absent when it has no tag
TagsField(tags) == IF tags = <<>> THEN <<>> ELSE <<SemicolonJoined(tags)>>

\* process p's Description/Tags patch is answered 200 in this step
PatchedNow(p) ==
    /\ run[p].pc = "patch"
    /\ Len(run'[p].log) = Len(run[p].log) + 1
    /\ run'[p].log[Len(run'[p].log)].status = 200

\* C13: with two overlapping runs, every patch that succeeds leaves the card
\* with the Description and the Tags of the run that issued it, both at
\* once, and no other step changes either field: the card always holds the
\* Description and Tags of the run whose patch was applied last, never the
\* Description of one run with the Tags of the other.
C13_LastWriterWins ==
    [][/\ \A p \in Procs :
              PatchedNow(p) =>
                  /\ wiDescription' = <<run[p].text>>
                  /\ wiTags' = TagsField(run[p].tags)
       /\ (\A p \in Procs : ~PatchedNow(p)) =>
              UNCHANGED <<wiDescription, wiTags>>]_vars

C13_Witness ==
    /\ \A p \in Procs :
          /\ run[p].log # <<>>
          /\ run[p].log[1].op = "update_work_item"
          /\ run[p].log[1].status = 200
    /\ run[1].text # run[2].text
    /\ run[1].tags = <<>>
    /\ run[2].tags = << <<"b">>, <<"u">> >>
    /\ wiDescription = <<run[1].text>>
    /\ wiTags = <<>>

\* how many calls of a sequence of calls failed
FailedCalls(calls) == Cardinality({k \in DOMAIN calls : calls[k].status # 200})

\* how many times a line was written to stderr
Occurrences(line, stderr) == Cardinality({k \in DOMAIN stderr : stderr[k] = line})

\* C14: when sync_child_items has left its loop, it has issued a create for
\* every requested title that was not in what it read, in order, even when
\* an earlier create failed, and has reported every failed create; when
\* sync_hyperlinks has left its loop, it has issued a patch for every
\* requested url that was not in what it fetched, even when an earlier
\* patch failed, and has reported every failed patch.
C14_FailuresDoNotStopLoops ==
    \A p \in Procs :
        LET r == run[p]
            creates == CallsAt(r.log, "child_loop")
            adds == CallsAt(r.log, "link_loop")
        IN  /\ (r.parent # <<>> /\ r.pc # "child_loop") =>
                  /\ CreatedTitles(r.log) = MissingTitles(r.children, r.fetched)
                  /\ Occurrences("Failed to create child", r.stderr)
                        = FailedCalls(creates)
            /\ (CallsAt(r.log, "link_fetch") # <<>> /\ r.pc # "link_loop") =>
                  /\ Len(adds) = Len(MissingLinks(r.links, r.relations))
                  /\ \A k \in DOMAIN adds :
                         adds[k].body
                           = HyperlinkPatch(MissingLinks(r.links, r.relations)[k])
                  /\ Occurrences("Failed to add link", r.stderr)
                        = FailedCalls(adds)

C14_Witness ==
    LET creates == CallsAt(run[1].log, "child_loop")
    IN  /\ run[1].pc = "exit"
        /\ run[1].children = << <<"a","b">>, <<"c">> >>
        /\ run[1].fetched = <<>>
        /\ Len(creates) = 2
        /\ creates[1].status = 500
        /\ creates[2].status = 200
        /\ Occurrences("Failed to create child", run[1].stderr) = 1
        /\ Len(wiChildren) = 1
        /\ wiChildren[1].title = <<"c">>

\* the reconciler a call belongs to, by the position that issued it:
\* 0 the Description/Tags patch, 1 children, 2 comment, 3 hyperlinks
Reconciler(at) ==
    IF at = "patch" THEN 0
    ELSE IF at \in {"child_wiql", "child_details", "parent", "child_loop"} THEN 1
    ELSE IF at \in {"comment_list", "comment_sync"} THEN 2
    ELSE 3

\* C15: a run whose Description/Tags patch succeeded ends with exit code 0
\* whatever fails afterwards, and by then every reconciler that was asked
\* for has run (children, comment, hyperlinks, each starting with its read)
\* and their calls come in that order.
C15_ReconcilersNeverFatal ==
    \A p \in Procs :
        LET r == run[p]
        IN  (/\ r.pc = "exit"
             /\ r.log # <<>>
             /\ r.log[1].at = "patch"
             /\ r.log[1].status = 200) =>
                /\ r.exit = <<0>>
                /\ r.children # <<>> => CallsAt(r.log, "child_wiql") # <<>>
                /\ (r.comment # <<>> /\ r.comment[1] # <<>>) =>
                       CallsAt(r.log, "comment_list") # <<>>
                /\ r.links # <<>> => CallsAt(r.log, "link_fetch") # <<>>
                /\ \A i, j \in DOMAIN r.log :
                       i < j => Reconciler(r.log[i].at) <= Reconciler(r.log[j].at)

C15_Witness ==
    LET r == run[1]
    IN  /\ r.pc = "exit"
        /\ r.exit = <<0>>
        /\ r.log[1].status = 200
        /\ CallsAt(r.log, "parent") # <<>>
        /\ CallsAt(r.log, "parent")[1].status = 500
        /\ r.children # <<>>
        /\ Member("Error: Could not fetch parent work item", r.stderr)
        /\ CallsAt(r.log, "comment_sync") # <<>>
        /\ CallsAt(r.log, "link_loop") # <<>>

\* s is the beginning of t
IsPrefix(s, t) == Len(s) <= Len(t) /\ SubSeq(t, 1, Len(s)) = s

\* a call of one of the kinds the specification allows: a read, a patch of
\* the card's Description and Tags, a patch that adds Hyperlink relations,
\* the creation of a work item, the creation or update of a marker comment
AllowedCall(e) ==
    \/ e.op \in {"wiql", "get_work_items", "get_work_item", "get_comments"}
    \/ /\ e.op = "update_work_item"
       /\ \A j \in DOMAIN e.body :
             \/ e.body[j].path \in {DescriptionPath, TagsPath}
             \/ /\ e.body[j].op = "add"
                /\ e.body[j].path = "/relations/-"
                /\ e.body[j].value.rel = "Hyperlink"
    \/ /\ e.op = "create_work_item"
       /\ \A j \in DOMAIN e.body : e.body[j].op = "add"
    \/ /\ e.op \in {"add_comment", "update_comment"}
       /\ Contains(e.body.text, COMMENT_MARKER)

\* C16: no step of a run removes or changes a child or a hyperlink of the
\* card, or the card's area and iteration: children and hyperlinks are only
\* appended; comments are only appended, or rewritten when they carry the
\* marker, and every comment written carries the marker; every call is a
\* read or one of the four kinds of mutation.
C16_StrictlyAdditive ==
    [][/\ IsPrefix(wiChildren, wiChildren')
       /\ IsPrefix(wiRelations, wiRelations')
       /\ wiPaths' = wiPaths
       /\ Len(wiComments) <= Len(wiComments')
       /\ \A k \in DOMAIN wiComments' :
             \/ k \in DOMAIN wiComments /\ wiComments'[k] = wiComments[k]
             \/ /\ Contains(wiComments'[k].text, COMMENT_MARKER)
                /\ k \in DOMAIN wiComments =>
                      /\ wiComments'[k].id = wiComments[k].id
                      /\ Contains(wiComments[k].text, COMMENT_MARKER)
       /\ \A p \in Procs : \A k \in DOMAIN run'[p].log :
             AllowedCall(run'[p].log[k])]_vars

C16_Witness ==
    /\ RunOk(run[1])
    /\ Len(wiChildren) = 2
    /\ wiChildren[1] = [id |-> RemoteCard + 1, title |-> <<"a","B">>]
    /\ Len(wiRelations) = 2
    /\ wiRelations[1] = [rel |-> "Hyperlink", url |-> <<"u">>,
                          attributes |-> [comment |-> <<"x">>]]
    /\ Len(wiComments) = 2
    /\ wiComments[1] = [id |-> 1, text |-> <<"o","k">>]
    /\ CallsAt(run[1].log, "comment_sync") # <<>>
    /\ CallsAt(run[1].log, "comment_sync")[1].op = "update_comment"

\* C17: every run that had a remote call fail, the reads of the existing
\* children, of the parent, of the comments and of the work item for its
\* hyperlinks included, has written a diagnostic to stderr.
C17_NoSilentFailures ==
    \A p \in Procs :
        FailedCalls(run[p].log) > 0 => run[p].stderr # <<>>

\* the operations of the work-item client
ClientOps ==
    {"get_work_item", "update_work_item", "create_work_item", "get_comments",
     "add_comment", "update_comment"}

\* C18: for every call of a client operation, a 401 answer is reported with
\* the remediation hint that names the required scopes, and every other
\* answer that is not a success is reported with its status and its body.
C18_FailureClassification ==
    \A p \in Procs : \A k \in DOMAIN run[p].log :
        LET e == run[p].log[k]
        IN  (e.op \in ClientOps /\ e.status # 200) =>
                IF e.status = 401
                THEN Member("Authentication failed. Required scopes", run[p].stderr)
                ELSE /\ \E j \in DOMAIN run[p].stderr :
                          run[p].stderr[j] \in
                              {"Error updating work item: status",
                               "Error creating work item: status",
                               "Error adding comment: status",
                               "Error updating comment: status"}
                     /\ Member("Details: body", run[p].stderr)

\* the configuration lacks something a run needs
MissingConfiguration(cfg) ==
    LET name == IF cfg.pat_env_var = <<>> THEN "ADO_PAT" ELSE cfg.pat_env_var[1]
    IN  \/ ~cfg.file
        \/ cfg.organization = ""
        \/ cfg.project = ""
        \/ name \notin DOMAIN cfg.env
        \/ cfg.env[name] = ""

\* C19: a run that has read a configuration with no metadata file, no
\* organization, no project, or with the variable that pat_env_var names
\* (ADO_PAT by default) unset or empty, has exited with a non-zero code,
\* has constructed no client and has made no call.
C19_MissingConfigurationIsFatal ==
    \A p \in Procs :
        LET r == run[p]
        IN  (r.cfg # <<>> /\ MissingConfiguration(r.cfg[1])) =>
                /\ r.pc = "exit"
                /\ r.exit # <<>> /\ r.exit[1] # 0
                /\ ~r.client
                /\ r.log = <<>>

C19_Witness ==
    /\ run[1].pc = "exit"
    /\ run[1].exit = <<1>>
    /\ run[1].cfg # <<>>
    /\ run[1].cfg[1].file
    /\ run[1].cfg[1].organization # "" /\ run[1].cfg[1].project # ""
    /\ run[1].cfg[1].pat_env_var = <<"MY_PAT">>
    /\ "ADO_PAT" \in DOMAIN run[1].cfg[1].env
    /\ ~run[1].client
    /\ run[1].log = <<>>
    /\ Member("Error: Environment variable is not set", run[1].stderr)

\* "bug; urgent", "write tests" and "update docs"
TagsBugUrgent == <<"b","u","g",";"," ","u","r","g","e","n","t">>
TitleWriteTests ==
    <<"w","r","i","t","e"," ","t","e","s","t","s">>
TitleUpdateDocs ==
    <<"u","p","d","a","t","e"," ","d","o","c","s">>

\* C20: a run on the first-run scenario text issues no comment call and no
\* hyperlink call and at most one patch, which replaces the Description by
\* the whole text and the Tags by "bug; urgent"; once the patch, the query
\* for the children (answered with none) and the parent fetch have
\* succeeded and the run has ended, it has issued that one patch and
\* exactly two creation calls, for "write tests" and then "update docs".
C20_EndToEndFirstRun ==
    \A p \in Procs :
        LET r == run[p]
            patches == Entries(r.log, IsDescriptionPatch)
        IN  r.text = EndToEndText =>
                /\ \A k \in DOMAIN r.log :
                       /\ Reconciler(r.log[k].at) \in {0, 1}
                       /\ ~IsCommentCall(r.log[k])
                       /\ ~IsLinkAdd(r.log[k])
                       /\ r.log[k].id = RemoteCard
                /\ Len(patches) <= 1
                /\ patches # <<>> =>
                       patches[1].body =
                          <<[op |-> "replace", path |-> DescriptionPath,
                             value |-> EndToEndText],
                            [op |-> "replace", path |-> TagsPath,
                             value |-> TagsBugUrgent]>>
                /\ (/\ r.pc = "exit"
                    /\ r.parent # <<>>
                    /\ r.fetched = <<>>
                    /\ CallsAt(r.log, "child_wiql") # <<>>
                    /\ CallsAt(r.log, "child_wiql")[1].status = 200) =>
                       /\ Len(patches) = 1
                       /\ Len(Entries(r.log, IsChildCreate)) = 2
                       /\ CreatedTitles(r.log) = <<TitleWriteTests, TitleUpdateDocs>>

C20_Witness ==
    /\ run[1].text = EndToEndText
    /\ RunOk(run[1])
    /\ Len(run[1].log) = 5
    /\ run[1].fetched = <<>>
    /\ wiDescription = <<EndToEndText>>
    /\ wiTags = <<TagsBugUrgent>>
    /\ Len(wiChildren) = 2
    /\ wiChildren[1].title = TitleWriteTests
    /\ wiChildren[2].title = TitleUpdateDocs
    /\ wiComments = <<>>
    /\ wiRelations = <<>>

\* the operations of a patch document on one path, in order
OpsOn(doc, path) == SelectSeq(doc, LAMBDA o : o.path = path)

\* the requested titles an iteration of the child loop issued a create for
RequestedOf(r) == MissingTitles(SubSeq(r.children, 1, r.ci - 1), r.fetched)

\* C21: every child-creation call of a run names the type Task and carries
\* one document with the requested Title, one reverse-hierarchy relation to
\* the run's card, the AreaPath of the parent the run fetched exactly when
\* it is not empty, its IterationPath exactly when it is not empty, and
\* nothing else.
C21_ChildCreationPayload ==
    \A p \in Procs :
        LET r == run[p]
            creates == Entries(r.log, IsChildCreate)
        IN  \A k \in DOMAIN creates :
                LET doc == creates[k].body
                    area == OpsOn(doc, "/fields/System.AreaPath")
                    iteration == OpsOn(doc, "/fields/System.IterationPath")
                    links == OpsOn(doc, "/relations/-")
                    titles == OpsOn(doc, TitlePath)
                IN  /\ creates[k].type = "Task"
                    /\ r.parent # <<>>
                    /\ \A j \in DOMAIN doc : doc[j].op = "add"
                    /\ Len(titles) = 1
                    /\ titles[1].value = RequestedOf(r)[k]
                    /\ Len(links) = 1
                    /\ links[1].value = [rel |-> "System.LinkTypes.Hierarchy-Reverse",
                                         url |-> r.card[1]]
                    /\ IF r.parent[1].area = <<>> THEN area = <<>>
                       ELSE Len(area) = 1 /\ area[1].value = r.parent[1].area
                    /\ IF r.parent[1].iteration = <<>> THEN iteration = <<>>
                       ELSE /\ Len(iteration) = 1
                            /\ iteration[1].value = r.parent[1].iteration
                    /\ Len(doc) = 2 + Len(area) + Len(iteration)

C21_Witness ==
    LET creates == Entries(run[1].log, IsChildCreate)
    IN  /\ creates # <<>>
        /\ creates[1].status = 200
        /\ run[1].parent = <<[area |-> <<"A">>, iteration |-> <<>>]>>
        /\ Len(creates[1].body) = 3
        /\ creates[1].body[3] = [op |-> "add", path |-> "/fields/System.AreaPath",
                                 value |-> <<"A">>]
        /\ Len(wiChildren) = 1

\* the fragments a description of ParseTexts is made of after its card
\* line, by their index in ParseFragments (no fragment begins another)
RECURSIVE Tokens(_)
Tokens(s) ==
    IF s = <<>> THEN <<>>
    ELSE LET k == CHOOSE k \in DOMAIN ParseFragments :
                     IsPrefix(ParseFragments[k], s)
         IN  <<k>> \o Tokens(SubSeq(s, Len(ParseFragments[k]) + 1, Len(s)))

InputOf(text) == Tokens(SubSeq(text, Len(LineCard42) + 1, Len(text)))

\* a fragment that begins with an `ADO <Directive>:` line, a bullet line
IsDirectiveLine(k) ==
    ParseFragments[k] \in {LineCommentHi, LineTags, FragChildren, FragLinks}
IsBulletLine(k) == ParseFragments[k] \in {FragBullet, FragBulletNoUrl}

\* the first position of a fragment in a sequence of fragments, 0 if none
FirstOf(fs, frag) ==
    IF \E k \in DOMAIN fs : ParseFragments[fs[k]] = frag
    THEN CHOOSE k \in DOMAIN fs :
            /\ ParseFragments[fs[k]] = frag
            /\ \A j \in 1..(k - 1) : ParseFragments[fs[j]] # frag
    ELSE 0

\* the comment the specification describes: the text after the colon of
\* the first `ADO Comment:` line and the lines after it, up to the next
\* line that begins a directive or to the end of the input, trimmed
ExpectedComment(fs) ==
    LET i == FirstOf(fs, LineCommentHi)
        stops == {j \in (i + 1)..Len(fs) : IsDirectiveLine(fs[j])}
        j == IF stops = {} THEN Len(fs) + 1
             ELSE CHOOSE j \in stops : \A m \in stops : j <= m
    IN  Strip(<<"h","i","\n">> \o Flatten(SubSeq(fs, i + 1, j - 1)))

\* C22: for a description with an `ADO Comment: hi` line, extract_comment
\* returns the trimmed text from after the colon up to the start of the
\* next line that begins an `ADO <Directive>:` directive, or to the end of
\* the input; it ends at no other line.
C22_CommentExtraction ==
    \A p \in Procs :
        LET r == run[p]
        IN  (r.extracted /\ FirstOf(InputOf(r.text), LineCommentHi) # 0) =>
                r.comment = <<ExpectedComment(InputOf(r.text))>>

\* the positions of the bullet lines that directly follow position i, one
\* after the other, up to the first line that is not a bullet
BulletRun(fs, i) ==
    {k \in (i + 1)..Len(fs) : \A j \in (i + 1)..k : IsBulletLine(fs[j])}

\* the trimmed remainder of a bullet line after its bullet character
BulletText(k) == Strip(Tail(ParseFragments[k]))

\* the titles the specification describes: the bullet of the
\* `ADO Children:` fragment and the bullet lines that directly follow it
ExpectedChildren(fs) ==
    LET i == FirstOf(fs, FragChildren)
        n == Cardinality(BulletRun(fs, i))
    IN  IF i = 0 THEN <<>>
        ELSE << <<"a">> >> \o [k \in 1..n |-> BulletText(fs[i + k])]

\* C23: extract_children returns, in order, the trimmed remainder of each
\* bullet line of the contiguous run of bullet lines that directly follows
\* the `ADO Children:` line, and nothing after the first line that is not a
\* bullet, a blank line included.
C23_ChildrenExtraction ==
    \A p \in Procs :
        LET r == run[p]
        IN  r.extracted => r.children = ExpectedChildren(InputOf(r.text))

\* the pair the specification describes for the text of one bullet: split
\* at the first "|" with both parts trimmed, the text as url and as name
\* when it has no "|"
PairOf(text) ==
    LET bars == {k \in DOMAIN text : text[k] = "|"}
        b == CHOOSE k \in bars : \A m \in bars : k <= m
    IN  IF bars = {} THEN [url |-> text, name |-> text]
        ELSE [url |-> Strip(SubSeq(text, 1, b - 1)),
              name |-> Strip(SubSeq(text, b + 1, Len(text)))]

\* the pairs of the bullets of a block from position k on, in order, those
\* with an empty url left out; blank lines between bullets do not end the
\* block, any other line does
RECURSIVE PairsFrom(_, _)
PairsFrom(fs, k) ==
    IF k > Len(fs) THEN <<>>
    ELSE IF ParseFragments[fs[k]] = FragBlank THEN PairsFrom(fs, k + 1)
    ELSE IF IsBulletLine(fs[k])
    THEN (IF PairOf(BulletText(fs[k])).url = <<>> THEN <<>>
          ELSE <<PairOf(BulletText(fs[k]))>>) \o PairsFrom(fs, k + 1)
    ELSE <<>>

ExpectedLinks(fs) ==
    LET i == FirstOf(fs, FragLinks)
    IN  IF i = 0 THEN <<>>
        ELSE <<PairOf(<<"u">>)>> \o PairsFrom(fs, i + 1)

\* C24: extract_links yields, in the order of the bullets of the
\* `ADO Links:` block, one pair per bullet: url and name are the trimmed
\* parts before and after the first "|", the url is also the name when the
\* bullet has no "|", and a bullet whose url is empty yields no pair.
C24_LinksExtraction ==
    \A p \in Procs :
        LET r == run[p]
        IN  r.extracted =>
                /\ r.links = ExpectedLinks(InputOf(r.text))
                /\ \A k \in DOMAIN r.links : r.links[k].url # <<>>

C24_Witness ==
    /\ run[1].extracted
    /\ InputOf(run[1].text) = <<5, 7, 8>>
    /\ ParseFragments[5] = FragLinks
    /\ ParseFragments[7] = FragBullet
    /\ ParseFragments[8] = FragBulletNoUrl
    /\ run[1].links = <<[url |-> <<"u">>, name |-> <<"u">>],
                        [url |-> <<"v">>, name |-> <<"n">>]>>

\* the first call a reconciler makes is its read
ReadsFirst(log, reads, mutations) ==
    \A k \in DOMAIN log :
        log[k].at \in mutations => \E j \in 1..(k - 1) : log[j].at \in reads

\* C25: in every run each reconciler issues its read before any of its
\* mutation calls, and every creation or link addition is for an item that
\* was not on the card when it was decided: it matches nothing the read
\* returned and nothing the run itself created or added before.
C25_ReadBeforeAct ==
    \A p \in Procs :
        LET r == run[p]
            creates == Entries(r.log, IsChildCreate)
            titles == CreatedTitles(r.log)
            adds == CallsAt(r.log, "link_loop")
        IN  /\ ReadsFirst(r.log, {"child_wiql"}, {"child_loop"})
            /\ ReadsFirst(r.log, {"comment_list"}, {"comment_sync"})
            /\ ReadsFirst(r.log, {"link_fetch"}, {"link_loop"})
            /\ \A k \in DOMAIN creates :
                  /\ \A j \in DOMAIN r.fetched :
                        Lower(r.fetched[j].title) # Lower(titles[k])
                  /\ \A j \in 1..(k - 1) :
                        creates[j].status = 200 =>
                            Lower(titles[j]) # Lower(titles[k])
            /\ \A k \in DOMAIN adds :
                  /\ \A j \in DOMAIN r.relations :
                        r.relations[j].url # adds[k].body[1].value.url
                  /\ \A j \in 1..(k - 1) :
                        adds[j].status = 200 =>
                            adds[j].body[1].value.url # adds[k].body[1].value.url

\* positions of the fetched comments that contain the marker
MarkedAt(cs) == {j \in DOMAIN cs : HasMarker(cs[j])}

FirstOfSet(S) == CHOOSE j \in S : \A i \in S : j <= i

\* C26: the step in which sync_comment acts issues exactly one call.  When a
\* fetched comment contains the marker the call is an update of the first
\* such comment in list order with the body marker, newline, text; every
\* other comment is left as it was, and nothing changes and no add_comment
\* follows when the update fails.  add_comment is issued only when no
\* fetched comment contains the marker.
C26_CommentUpdatePath ==
    [][\A p \in Procs :
          (run[p].pc = "comment_sync" /\ run'[p].pc # "comment_sync") =>
              LET r == run[p]
                  marked == MarkedAt(r.comments)
                  calls == CallsAt(run'[p].log, "comment_sync")
                  e == calls[1]
                  body == COMMENT_MARKER \o <<"\n">> \o r.comment[1]
              IN  /\ Len(calls) = 1
                  /\ Len(run'[p].log) = Len(r.log) + 1
                  /\ e.op \in {"update_comment", "add_comment"}
                  /\ e.op = "add_comment" <=> marked = {}
                  /\ e.body.text = body
                  /\ marked # {} =>
                        LET first == r.comments[FirstOfSet(marked)].id
                        IN  /\ e.body.comment_id = first
                            /\ Len(wiComments') = Len(wiComments)
                            /\ \A j \in DOMAIN wiComments :
                                  IF wiComments[j].id = first /\ e.status = 200
                                  THEN wiComments'[j] = [id |-> first, text |-> body]
                                  ELSE wiComments'[j] = wiComments[j]]_vars

\* an update of the second comment of the card, the first with the marker,
\* was refused and the run went on without adding a comment
C26_Witness ==
    LET r == run[1]
        calls == CallsAt(r.log, "comment_sync")
    IN  /\ r.pc = "exit"
        /\ Len(r.comments) >= 2
        /\ ~HasMarker(r.comments[1])
        /\ HasMarker(r.comments[2])
        /\ Len(calls) = 1
        /\ calls[1].op = "update_comment"
        /\ calls[1].body.comment_id = r.comments[2].id
        /\ calls[1].status = 500
        /\ \A k \in DOMAIN r.log : r.log[k].op # "add_comment"

\* a read of the reconciler was refused
ReadFailed(log, reads) == \E k \in DOMAIN log : log[k].at \in reads /\ log[k].status # 200

\* C27: in every run, a reconciler one of whose reads (the children query,
\* the children details or the parent fetch; the comment list; the work item
\* fetch for hyperlinks) was refused issues no mutation call.
C27_FailedReadMeansNoMutation ==
    \A p \in Procs :
        LET log == run[p].log
        IN  /\ ReadFailed(log, {"child_wiql", "child_details", "parent"}) =>
                  CallsAt(log, "child_loop") = <<>>
            /\ ReadFailed(log, {"comment_list"}) => CallsAt(log, "comment_sync") = <<>>
            /\ ReadFailed(log, {"link_fetch"}) => CallsAt(log, "link_loop") = <<>>

\* C28: when two overlapping runs carry a comment directive for the same
\* card, which had no comment with the marker before them, the card holds
\* at most one comment with the marker in every state of every
\* interleaving in which no call was refused.
C28_CommentUnderConcurrency ==
    (/\ \A p \in Procs : run[p].comment # <<>> /\ run[p].card # <<>>
     /\ run[1].card = run[2].card
     /\ failures = 0) =>
        Len(MarkerComments) <= 1

\* the commands of a repository sync in the order of the source text
Pipeline ==
    <<"clone", "checkout_base", "checkout_b", "copy", "checkout_B", "add",
      "commit", "push", "create_pr">>

\* the commands run for each repository so far, the current one included
SyncLogs == {gh.attempts[k].steps : k \in DOMAIN gh.attempts} \cup {gh.steps}

\* C29: in a sync-files action the commands run for a repository are always
\* a prefix of clone, checkout of the base, creation of the branch, copy,
\* (branch reset, add,) commit, push, pull request; none follows a command
\* that failed or a copy that copied nothing, so the pull request is
\* created only after a successful push; and sync_files_to_repo returns
\* success only when its last command created the pull request.
C29_SyncPipelineOrdering ==
    gh.action = "sync-files" =>
        /\ \A log \in SyncLogs :
              /\ Len(log) <= Len(Pipeline)
              /\ \A k \in DOMAIN log :
                    /\ log[k].step = Pipeline[k]
                    /\ k < Len(log) => log[k].out = "ok"
                    /\ log[k].step = "create_pr" =>
                          \E j \in 1..(k - 1) :
                              log[j].step = "push" /\ log[j].out = "ok"
        /\ \A k \in DOMAIN gh.attempts :
              LET a == gh.attempts[k]
              IN  /\ a.steps # <<>>
                  /\ a.ok =>
                        /\ a.steps[Len(a.steps)].step = "create_pr"
                        /\ a.steps[Len(a.steps)].out = "ok"
                  /\ ~a.ok => a.steps[Len(a.steps)].out \in {"failed", "nothing"}

\* one repository stopped at a refused push, with no pull request, and the
\* next went through to its pull request
C29_Witness ==
    /\ gh.action = "sync-files"
    /\ gh.pc = "done"
    /\ Len(gh.attempts) = 2
    /\ ~gh.attempts[1].ok
    /\ Len(gh.attempts[1].steps) = 8
    /\ gh.attempts[1].steps[8] = [step |-> "push", out |-> "failed"]
    /\ gh.attempts[2].ok
    /\ Len(gh.attempts[2].steps) = 9
    /\ gh.attempts[2].steps[9] = [step |-> "create_pr", out |-> "ok"]

\* C30: when a multi-repository action is over, the operation was attempted
\* on every configured repository, in order, whatever happened on the
\* repositories before, and success + failed is their number.
C30_PerRepositoryIsolation ==
    gh.pc \in {"done", "crashed"} =>
        /\ Len(gh.attempts) = gh.n
        /\ \A k \in DOMAIN gh.attempts : gh.attempts[k].repo = k
        /\ gh.success + gh.failed = gh.n

====
